---- MODULE Spec2Model ----
(***************************************************************************)
(* A model of podible: the audiobook scanner, the transcode worker and its *)
(* job channel, the persisted Transcode State and Library Index, the       *)
(* chapter-tag encoder and the virtual stream assembler.                   *)
(*                                                                         *)
(* Three specifications share the module.  StreamSpec draws one book       *)
(* directory and applies the scanner's buildBook and the stream handler to *)
(* it under every Range header; ScanSpec draws from a wider set of         *)
(* directories and applies buildBook, the feed and an un-ranged request.   *)
(* Spec is the process: scans, the debounced watcher, the worker loop, the *)
(* converter and the saves, one action per atomic block between awaits.    *)
(***************************************************************************)
EXTENDS Integers, Sequences, FiniteSets, TLC

VARIABLES
  \* ---- StreamSpec: one book directory and one request ----
  dir,            \* the book directory on disk (parts, cover / transcoded output)
  book,           \* the Book buildBook produced for it, or NoBook
  rangeHeader,    \* the Range header of the last stream request, or NoHeader
  response,       \* the response handleStream gave to it, or NoResponse
  enclosure,      \* the enclosure length the feed published for the book (-1: no feed yet)
  \* ---- Spec: the process ----
  srcMtime,       \* file system: mtime of each source .m4b
  srcDuration,    \* file system: whether ffprobe finds a duration in the source
  outFiles,       \* data directory: the transcode outputs present (their paths)
  transcodeStatus,\* in-memory Transcode State: source -> TranscodeStatus or NoStatus
  readyBooks,     \* in-memory Library Index: book (by its source) -> Book or NoBook
  queue,          \* the job channel's queue
  queuedSources,  \* the in-memory "currently queued" set
  diskStatus,     \* transcode-status.json as last written
  diskIndex,      \* library-index.json as last written
  scans,          \* the scanAndQueue calls in progress, each with its position and locals
  rescanTimer,    \* whether the rescanTimer handle is set (non-null)
  timers,         \* the setTimeout callbacks of scheduleRescan not yet run
  worker,         \* the worker loop: its position, its job, its status object
  running,        \* the converter processes alive, oldest first (their targets)
  boot,           \* history: whether the process was restarted, and what it found
  audit,          \* history: the state the last undisturbed scan left behind
  burst,          \* history: the watch events since the rescan timer was last set
  chan,           \* the job channel taken alone: its wake handle, its consumer, its logs
  probe,          \* the probe cache taken alone: its maps, its file, the engine's calls
  input,          \* the argument of an operation taken alone
  output,         \* its result
  statusFile      \* transcode-status.json taken alone: its bytes, the writes in flight

streamVars == <<dir, book, rangeHeader, response, enclosure>>
procVars == <<srcMtime, srcDuration, outFiles, transcodeStatus, readyBooks, queue,
              queuedSources, diskStatus, diskIndex, scans, rescanTimer, timers, burst,
              worker, running, boot, audit, chan, probe, input, output, statusFile>>
vars == <<dir, book, rangeHeader, response, enclosure, srcMtime, srcDuration, outFiles,
          transcodeStatus, readyBooks, queue, queuedSources, diskStatus, diskIndex,
          scans, rescanTimer, timers, burst, worker, running, boot, audit, chan,
          probe, input, output, statusFile>>

unitVars == <<probe, input, output, statusFile>>
UnitIdle == probe = <<>> /\ input = <<>> /\ output = <<>> /\ statusFile = <<>>

NoBook == [kind |-> "none"]
NoHeader == <<"<null>">>
NoResponse == [status |-> 0]
NoCover == [present |-> FALSE]
NoTitle == <<>>
NoRange == [ok |-> FALSE]
NoContentRange == [unit |-> "none"]

(***************************************************************************)
(* Bounds of StreamSpec.                                                   *)
(***************************************************************************)
MaxParts == 2
MaxPartSize == 2
MaxHalfMs == 3
MaxCoverSize == 1
MaxSingleSize == 3

(***************************************************************************)
(* Small helpers.                                                          *)
(***************************************************************************)
RECURSIVE Concat(_)
Concat(chunks) ==
  IF chunks = <<>> THEN <<>>
  ELSE IF Len(chunks) = 1 THEN chunks[1]
  ELSE LET half == Len(chunks) \div 2
       IN  Concat(SubSeq(chunks, 1, half)) \o Concat(SubSeq(chunks, half + 1, Len(chunks)))

RECURSIVE SumSeq(_)
SumSeq(s) == IF s = <<>> THEN 0 ELSE Head(s) + SumSeq(Tail(s))

Min(a, b) == IF a < b THEN a ELSE b
Max(a, b) == IF a > b THEN a ELSE b

Digit == <<"0", "1", "2", "3", "4", "5", "6", "7", "8", "9">>
IsDigit(c) == \E i \in 1..10 : Digit[i] = c
DigitVal(c) == (CHOOSE i \in 1..10 : Digit[i] = c) - 1

\* String(n) of a non-negative integer, as characters
RECURSIVE ToDigits(_)
ToDigits(n) ==
  IF n < 10 THEN <<Digit[n + 1]>> ELSE ToDigits(n \div 10) \o <<Digit[(n % 10) + 1]>>

\* Number(s) of a non-empty run of decimal digits
RECURSIVE NumberOf(_)
NumberOf(s) ==
  IF s = <<>> THEN 0
  ELSE 10 * NumberOf(SubSeq(s, 1, Len(s) - 1)) + DigitVal(s[Len(s)])

\* TextEncoder.encode of an ASCII string of lower-case letters, digits and "/"
AsciiOf(c) ==
  CASE c = "a" -> 97 [] c = "c" -> 99 [] c = "e" -> 101 [] c = "g" -> 103
    [] c = "h" -> 104 [] c = "i" -> 105 [] c = "j" -> 106 [] c = "m" -> 109
    [] c = "n" -> 110 [] c = "o" -> 111 [] c = "p" -> 112 [] c = "r" -> 114
    [] c = "s" -> 115 [] c = "t" -> 116 [] c = "/" -> 47
    [] c = "A" -> 65 [] c = "C" -> 67 [] c = "H" -> 72 [] c = "I" -> 73
    [] c = "O" -> 79 [] c = "P" -> 80 [] c = "T" -> 84 [] c = "D" -> 68
    [] c = "2" -> 50 [] c = "3" -> 51
    [] OTHER -> 48 + DigitVal(c)
Encode(chars) == [i \in 1..Len(chars) |-> AsciiOf(chars[i])]

(***************************************************************************)
(* The chapter-tag encoder (streaming/id3).                                *)
(***************************************************************************)
synchsafeSize(size) ==
  << (size \div 2097152) % 128, (size \div 16384) % 128, (size \div 128) % 128, size % 128 >>

\* the four bytes of value as a 32-bit word; a word of 2^31 or more is given as
\* its two's-complement twin (0xffffffff as -1), \div rounding down and % being >= 0
writeUint32BE(value) ==
  << (value \div 16777216) % 256, (value \div 65536) % 256, (value \div 256) % 256,
     value % 256 >>

id3Frame(id, payload) ==
  SubSeq(Encode(id), 1, Min(4, Len(id))) \o synchsafeSize(Len(payload)) \o <<0, 0>> \o payload

textFrame(id, textBytes) == id3Frame(id, <<3>> \o textBytes)

coverMimeFromPath(ext) ==
  IF ext = "png" THEN <<"i", "m", "a", "g", "e", "/", "p", "n", "g">>
  ELSE <<"i", "m", "a", "g", "e", "/", "j", "p", "e", "g">>

apicFrame(cover) ==
  id3Frame(<<"A", "P", "I", "C">>,
           Concat(<< <<3>>, Encode(cover.mime), <<0>>, <<3>>, <<0>>, cover.data >>))

chapFrame(chapterId, title, startMs, endMs) ==
  id3Frame(<<"C", "H", "A", "P">>,
           Concat(<< Encode(chapterId), <<0>>, writeUint32BE(startMs), writeUint32BE(endMs),
                     writeUint32BE(-1), writeUint32BE(-1),
                     textFrame(<<"T", "I", "T", "2">>, title) >>))

\* "Chapters" in UTF-8
ChaptersText == <<67, 104, 97, 112, 116, 101, 114, 115>>

ctocFrame(childIds) ==
  id3Frame(<<"C", "T", "O", "C">>,
           Concat(<< Encode(<<"t", "o", "c">>), <<0>>, <<3>>, <<Len(childIds) % 256>>,
                     Concat([i \in 1..Len(childIds) |-> Encode(childIds[i]) \o <<0>>]),
                     textFrame(<<"T", "I", "T", "2">>, ChaptersText) >>))

buildId3ChaptersTag(timings, cover) ==
  IF Len(timings) = 0 /\ ~cover.present THEN <<>>
  ELSE LET frames ==
             (IF cover.present THEN <<apicFrame(cover)>> ELSE <<>>)
             \o (IF Len(timings) > 0
                 THEN <<ctocFrame([i \in 1..Len(timings) |-> timings[i].id])>>
                      \o [i \in 1..Len(timings) |->
                            chapFrame(timings[i].id, timings[i].title,
                                      timings[i].startMs, timings[i].endMs)]
                 ELSE <<>>)
           framesBytes == Concat(frames)
       IN  Encode(<<"I", "D", "3">>) \o <<4, 0, 0>> \o synchsafeSize(Len(framesBytes))
           \o framesBytes

(***************************************************************************)
(* The scanner's buildBook, multi branch, and the ready branch of a single *)
(* (library/index).  A part is [name, size, durKnown, halfMs, title]: name *)
(* is the file name without ".mp3", halfMs the probed duration in units of *)
(* 0.5 ms, title the embedded title tag in UTF-8 (<<>>: none).             *)
(***************************************************************************)
\* a < b in the order of Array.prototype.sort() on strings of digits
RECURSIVE NameLess(_, _)
NameLess(a, b) ==
  IF a = <<>> THEN b # <<>>
  ELSE IF b = <<>> THEN FALSE
  ELSE IF Head(a) # Head(b) THEN DigitVal(Head(a)) < DigitVal(Head(b))
  ELSE NameLess(Tail(a), Tail(b))

RECURSIVE SortParts(_)
SortParts(parts) ==
  IF parts = {} THEN <<>>
  ELSE LET first == CHOOSE p \in parts : \A q \in parts \ {p} : NameLess(p.name, q.name)
       IN  <<first>> \o SortParts(parts \ {first})

\* Math.max(0, Math.round(duration * 1000)), the duration given in half milliseconds
DurationMs(halfMs) == Max(0, (halfMs + 1) \div 2)

SegmentEndInclusive(cursor, size) == cursor + size

SegmentEnd(cursor, size) == cursor + size - 1

\* the for-loop over the sorted parts: the segments built so far, the byte cursor
RECURSIVE BuildSegments(_, _, _)
BuildSegments(mp3s, segments, cursor) ==
  IF mp3s = <<>> THEN [failed |-> "", segments |-> segments]
  ELSE LET part == Head(mp3s)
       IN  IF part.size <= 0 THEN [failed |-> "zero-size mp3", segments |-> <<>>]
           ELSE IF ~part.durKnown THEN [failed |-> "mp3 duration missing", segments |-> <<>>]
           ELSE BuildSegments(Tail(mp3s),
                  Append(segments,
                         [name |-> part.name, size |-> part.size, start |-> cursor,
                          end |-> SegmentEnd(cursor, part.size),
                          durationMs |-> DurationMs(part.halfMs), title |-> part.title]),
                  cursor + part.size)

buildBook(d) ==
  IF d.kind = "single"
  THEN [kind |-> "single", totalSize |-> d.outSize, primaryFile |-> "target"]
  ELSE LET built == BuildSegments(SortParts(d.parts), <<>>, 0)
       IN  IF built.failed # "" \/ built.segments = <<>> THEN NoBook
           ELSE [kind |-> "multi",
                 totalSize |-> SumSeq([i \in 1..Len(built.segments) |-> built.segments[i].size]),
                 files |-> built.segments,
                 cover |-> d.cover]

(***************************************************************************)
(* Chapter timings (library/chapters) and the size predictor.              *)
(***************************************************************************)
ChapterId(index) == <<"c", "h">> \o ToDigits(index)

\* path.basename(name, path.extname(name)) in UTF-8: the stem of "<digits>.mp3"
BaseName(name) == Encode(name)

ChapterTitle(segment) ==
  IF segment.title # NoTitle THEN segment.title ELSE BaseName(segment.name)

ChapterEndAtStart(startMs, durationMs) == startMs

ChapterEnd(startMs, durationMs) == startMs + durationMs

RECURSIVE TimingsFrom(_, _, _)
TimingsFrom(files, index, cursorMs) ==
  IF index > Len(files) THEN <<>>
  ELSE LET startMs == cursorMs
           endMs == ChapterEnd(startMs, files[index].durationMs)
       IN  << [id |-> ChapterId(index - 1), title |-> ChapterTitle(files[index]),
               startMs |-> startMs, endMs |-> endMs] >>
           \o TimingsFrom(files, index + 1, endMs)

buildChapterTimings(b) == TimingsFrom(b.files, 1, 0)

estimateCoverFrameLength(cover) ==
  IF ~cover.present \/ Len(cover.data) <= 0 THEN 0
  ELSE 10 + (1 + Len(Encode(coverMimeFromPath(cover.ext))) + 1 + 1 + 1 + Len(cover.data))

estimateId3TagLength(b) ==
  IF b.kind # "multi" THEN 0
  ELSE LET dummyTimings == [i \in 1..Len(b.files) |->
                              [id |-> ChapterId(i - 1), title |-> BaseName(b.files[i].name),
                               startMs |-> 0, endMs |-> 0]]
       IN  Len(buildId3ChaptersTag(dummyTimings, NoCover)) + estimateCoverFrameLength(b.cover)

\* rssFeed: the enclosure length of the book's item
enclosureLength(b) == b.totalSize + estimateId3TagLength(b)

(***************************************************************************)
(* The virtual stream assembler (streaming/range, http handleStream).      *)
(* A Range header is a sequence of characters.                             *)
(***************************************************************************)
BytesPrefix == <<"b", "y", "t", "e", "s", "=">>

\* the match of /^bytes=(\d*)-(\d*)$/ : [ok, first, second]
RangeMatch(h) ==
  IF Len(h) < Len(BytesPrefix) + 1 \/ SubSeq(h, 1, Len(BytesPrefix)) # BytesPrefix
  THEN [ok |-> FALSE]
  ELSE LET rest == SubSeq(h, Len(BytesPrefix) + 1, Len(h))
           dashes == {i \in 1..Len(rest) : rest[i] = "-"}
       IN  IF Cardinality(dashes) # 1 \/ \E i \in 1..Len(rest) : rest[i] # "-" /\ ~IsDigit(rest[i])
           THEN [ok |-> FALSE]
           ELSE LET d == CHOOSE i \in dashes : TRUE
                IN  [ok |-> TRUE, first |-> SubSeq(rest, 1, d - 1),
                     second |-> SubSeq(rest, d + 1, Len(rest))]

RangeEndUnclamped(end, size) == end

RangeEnd(end, size) == Min(end, size - 1)

parseRange(h, size) ==
  IF h = NoHeader \/ h = <<>> THEN NoRange
  ELSE LET match == RangeMatch(h)
       IN  IF ~match.ok THEN NoRange
           ELSE LET start0 == IF match.first # <<>> THEN NumberOf(match.first) ELSE 0
                    end0 == IF match.second # <<>> THEN NumberOf(match.second) ELSE size - 1
                    suffix == match.first = <<>> /\ match.second # <<>>
                    start == IF suffix THEN size - end0 ELSE start0
                    end == IF suffix THEN size - 1 ELSE end0
                IN  IF start < 0 \/ end < start \/ start >= size THEN NoRange
                    ELSE [ok |-> TRUE, start |-> start, end |-> RangeEnd(end, size)]

\* the slice of one part a range selects, or none
SegmentSliceWholeTail(file, start, end) ==
  IF file.end < start \/ file.start > end THEN <<>>
  ELSE << [file EXCEPT !.start = Max(start, file.start) - file.start,
                       !.end = file.end - file.start] >>

SegmentSlice(file, start, end) ==
  IF file.end < start \/ file.start > end THEN <<>>
  ELSE << [file EXCEPT !.start = Max(start, file.start) - file.start,
                       !.end = Min(end, file.end) - file.start] >>

segmentsForRange(files, start, end) ==
  Concat([i \in 1..Len(files) |-> SegmentSlice(files[i], start, end)])

\* the bytes of a part file on disk, and of the transcoded container
FileBytes(name, size) == [k \in 1..size |-> 1000 * NumberOf(name) + (k - 1)]
PrimaryBytes(size) == [k \in 1..size |-> 500 + (k - 1)]

\* createReadStream(path, {start, end}): both ends inclusive
streamSegments(segments) ==
  [i \in 1..Len(segments) |->
     SubSeq(FileBytes(segments[i].name, segments[i].size),
            segments[i].start + 1, segments[i].end + 1)]

\* the cover art handleStream reads for the tag
CoverArt(cover) ==
  IF cover.present /\ Len(cover.data) > 0
  THEN [present |-> TRUE, mime |-> coverMimeFromPath(cover.ext), data |-> cover.data]
  ELSE NoCover

StreamTag(b) == buildId3ChaptersTag(buildChapterTimings(b), CoverArt(b.cover))

\* the status of a multi response
MultiStatus(h) == IF h # NoHeader /\ h # <<>> THEN 206 ELSE 200

RangeNotSatisfiable(totalSize) ==
  [status |-> 416, contentLength |-> -1,
   contentRange |-> [unit |-> "bytes", star |-> TRUE, start |-> 0, end |-> 0, size |-> totalSize],
   chunks |-> <<>>]

handleStreamSingle(b, h) ==
  LET size == b.totalSize
      range == parseRange(h, size)
  IN  IF ~range.ok
      THEN [status |-> 200, contentLength |-> size, contentRange |-> NoContentRange,
            chunks |-> <<PrimaryBytes(size)>>]
      ELSE [status |-> 206, contentLength |-> range.end - range.start + 1,
            contentRange |-> [unit |-> "bytes", star |-> FALSE, start |-> range.start,
                              end |-> range.end, size |-> size],
            chunks |-> <<SubSeq(PrimaryBytes(size), range.start + 1, range.end + 1)>>]

handleStreamMulti(b, h) ==
  LET tag == StreamTag(b)
      tagLength == Len(tag)
      totalSize == tagLength + b.totalSize
      parsed == parseRange(h, totalSize)
      range == IF parsed.ok THEN parsed ELSE [ok |-> TRUE, start |-> 0, end |-> totalSize - 1]
      tagEnd == Min(range.end, tagLength - 1)
      includeTag == range.start < tagLength
      audioRangeStart == Max(range.start, tagLength) - tagLength
      audioRangeEnd == range.end - tagLength
      includeAudio == range.end >= tagLength
      contentRange == IF h # NoHeader /\ h # <<>>
                      THEN [unit |-> "bytes", star |-> FALSE, start |-> range.start,
                            end |-> range.end, size |-> totalSize]
                      ELSE NoContentRange
      audioSlices == IF includeAudio
                     THEN segmentsForRange(b.files, audioRangeStart, audioRangeEnd) ELSE <<>>
      tagSlice == IF includeTag THEN <<SubSeq(tag, range.start + 1, tagEnd + 1)>> ELSE <<>>
  IN  IF range.start >= totalSize THEN RangeNotSatisfiable(totalSize)
      ELSE IF includeTag /\ ~includeAudio
      THEN [status |-> MultiStatus(h), contentLength |-> range.end - range.start + 1,
            contentRange |-> contentRange, chunks |-> tagSlice]
      ELSE IF includeAudio /\ audioSlices = <<>>
      THEN [RangeNotSatisfiable(totalSize) EXCEPT !.contentLength = range.end - range.start + 1]
      ELSE [status |-> MultiStatus(h), contentLength |-> range.end - range.start + 1,
            contentRange |-> contentRange,
            chunks |-> tagSlice \o streamSegments(audioSlices)]

handleStream(b, h) ==
  IF b.kind = "single" THEN handleStreamSingle(b, h) ELSE handleStreamMulti(b, h)

(***************************************************************************)
(* StreamSpec and ScanSpec: one book directory, scanned once, then asked   *)
(* for (StreamSpec: any Range header; ScanSpec: the feed item and the      *)
(* un-ranged stream).                                                      *)
(***************************************************************************)
PartNames == {<<"1">>, <<"1", "0">>, <<"2">>}
CoverData(n) == [k \in 1..n |-> 255]

\* the sets of parts with distinct names, each part's attributes drawn from attrs
PartSets(attrs) ==
  UNION {
    { {[name |-> n, size |-> f[n].size, durKnown |-> f[n].durKnown,
        halfMs |-> f[n].halfMs, title |-> f[n].title] : n \in names} :
      f \in [names -> attrs] } :
    names \in {ns \in SUBSET PartNames : Cardinality(ns) \in 1..MaxParts} }

StreamAttrs ==
  [size : 1..MaxPartSize, durKnown : {TRUE}, halfMs : {1}, title : {NoTitle}]
ScanAttrs ==
  [size : {0, 1, MaxPartSize}, durKnown : {TRUE}, halfMs : {0, 1, MaxHalfMs},
   title : {NoTitle, <<65, 66>>}]
  \cup [size : {0, 1, MaxPartSize}, durKnown : {FALSE}, halfMs : {0}, title : {NoTitle, <<65, 66>>}]

StreamDirs ==
  [kind : {"multi"}, parts : PartSets(StreamAttrs),
   cover : {NoCover, [present |-> TRUE, ext |-> "jpg", data |-> CoverData(MaxCoverSize)]}]
  \cup [kind : {"single"}, outSize : 0..MaxSingleSize]
ScanDirs ==
  [kind : {"multi"}, parts : PartSets(ScanAttrs),
   cover : {NoCover, [present |-> TRUE, ext |-> "jpg", data |-> CoverData(0)]}
           \cup [present : {TRUE}, ext : {"jpg", "png"}, data : {CoverData(MaxCoverSize)}]]

\* the size of the virtual object of a book, and the length of its tag
TagLength(b) == IF b.kind = "multi" THEN Len(StreamTag(b)) ELSE 0
VirtualSize(b) == TagLength(b) + b.totalSize

\* the byte positions requests are drawn from: around 0, and from the last tag byte on
Positions(tagLength, virtualSize) ==
  {p \in 0..(virtualSize + 1) : p <= 1 \/ p >= tagLength - 1}

RangeOf(first, second) == BytesPrefix \o first \o <<"-">> \o second

MalformedHeaders ==
  { <<"i", "t", "e", "m", "s", "=", "0", "-", "1">>,
    <<"b", "y", "t", "e", "s", "=", "a", "-", "1">>,
    <<"b", "y", "t", "e", "s", "=", "0", "-", "0", ",", "1", "-", "1">>,
    <<"b", "y", "t", "e", "s", "=", "0">>,
    <<"b", "y", "t", "e", "s", " ", "0", "-", "0">> }

Headers(b) ==
  LET tagLength == TagLength(b)
      virtualSize == tagLength + b.totalSize
      positions == {ToDigits(p) : p \in Positions(tagLength, virtualSize)}
      suffixes == {ToDigits(n) : n \in 0..(b.totalSize + 1) \cup {virtualSize, virtualSize + 1}}
  IN  {NoHeader, <<>>, RangeOf(<<>>, <<>>)}
      \cup {RangeOf(a, z) : a \in positions, z \in positions}
      \cup {RangeOf(a, <<>>) : a \in positions}
      \cup {RangeOf(<<>>, n) : n \in suffixes}
      \cup MalformedHeaders

\* the process is not part of StreamSpec and ScanSpec: it stays as constructed
ProcIdle ==
  /\ srcMtime = <<>> /\ srcDuration = <<>> /\ outFiles = {} /\ transcodeStatus = <<>>
  /\ readyBooks = <<>> /\ queue = <<>> /\ queuedSources = {} /\ diskStatus = <<>>
  /\ diskIndex = <<>> /\ scans = <<>> /\ rescanTimer = FALSE /\ worker = <<>>
  /\ timers = 0 /\ burst = 0
  /\ running = <<>> /\ boot = <<>> /\ audit = <<>> /\ chan = <<>>
  /\ UnitIdle

StreamInitOver(dirs) ==
  /\ dir \in dirs
  /\ book = NoBook
  /\ rangeHeader = NoHeader
  /\ response = NoResponse
  /\ enclosure = -1
  /\ ProcIdle

\* scanAndQueue reaching the directory: the Book, if buildBook gives one, becomes ready
ScanDir ==
  /\ book = NoBook
  /\ buildBook(dir) # NoBook
  /\ book' = buildBook(dir)
  /\ UNCHANGED <<dir, rangeHeader, response, enclosure>>
  /\ UNCHANGED procVars

\* GET /stream/<id> with Range header h
Request(h) ==
  /\ rangeHeader' = h
  /\ response' = handleStream(book, h)
  /\ UNCHANGED <<dir, book, enclosure>>
  /\ UNCHANGED procVars

StreamRequest ==
  /\ book # NoBook
  /\ response = NoResponse
  /\ \E h \in Headers(book) : Request(h)

WholeRequest ==
  /\ book # NoBook
  /\ response = NoResponse
  /\ Request(NoHeader)

\* GET /feed.xml: the item of the book
FeedItem ==
  /\ book # NoBook
  /\ enclosure = -1
  /\ enclosure' = enclosureLength(book)
  /\ UNCHANGED <<dir, book, rangeHeader, response>>
  /\ UNCHANGED procVars

StreamInit == StreamInitOver(StreamDirs)
StreamNext == ScanDir \/ StreamRequest
StreamSpec == StreamInit /\ [][StreamNext]_vars

ScanInit == StreamInitOver(ScanDirs)
ScanNext == ScanDir \/ FeedItem \/ WholeRequest
ScanSpec == ScanInit /\ [][ScanNext]_vars

\* the body of a response: its chunks in the order they were enqueued
Body(r) == Concat(r.chunks)

(***************************************************************************)
(* The process: scanner, debounced watcher, job channel, worker, converter *)
(* and the two persisted files.  Each action is one atomic block of the    *)
(* event loop: the code from one await to the next.                        *)
(***************************************************************************)
\* the single-file books under the scan roots, in readdir order
ScanOrder == <<"a.m4b">>
Sources == {ScanOrder[i] : i \in 1..Len(ScanOrder)}

MaxMtime == 2     \* source mtimes are 1..MaxMtime: a source is touched MaxMtime - 1 times
MaxScans == 1     \* scanAndQueue calls in progress at once
MaxProcs == 2     \* converter processes alive at once
MaxBurst == 2     \* watch events counted since the timer was set
MaxTimers == 2    \* timeouts outstanding at once (the code keeps one)

NoStatus == [state |-> "none"]
NoJob == [source |-> "none"]
NoPayload == <<>>

transcodeOutputPath(source, mtimeMs) == <<source, mtimeMs>>

\* the status objects buildBook constructs: the pending one carries the
\* book's meta, the failed one of a missing duration does not
TranscodeStatus(source, mtimeMs, state, error) ==
  [mtimeMs |-> mtimeMs, state |-> state, error |-> error,
   target |-> transcodeOutputPath(source, mtimeMs), meta |-> (state = "pending")]

TranscodeJob(source, mtimeMs) ==
  [source |-> source, target |-> transcodeOutputPath(source, mtimeMs), mtimeMs |-> mtimeMs]

bookFromMeta(outputPath) == [kind |-> "single", primaryFile |-> outputPath]

WorkerIdle(last) ==
  [pc |-> "idle", job |-> NoJob, status |-> NoStatus, linked |-> FALSE,
   payload |-> NoPayload, last |-> last]

NewScan == [pc |-> "stat", idx |-> 1, mtimeMs |-> 0, payload |-> NoPayload]

RemoveAt(s, i) == SubSeq(s, 1, i - 1) \o SubSeq(s, i + 1, Len(s))

NoBoot ==
  [restarted |-> FALSE, startup |-> FALSE, complete |-> {}, unindexed |-> {}, midway |-> {},
   partial |-> {}]
NoAudit == [on |-> FALSE]
NoSnapshot == <<>>

\* history of a restart: the startup scan, the oldest scan, has ended; an
\* output the killed converter left half written has been written anew
BootAfter ==
  [boot EXCEPT
     !.startup = IF @ /\ Len(scans') < Len(scans) /\ scans' = Tail(scans) THEN FALSE ELSE @,
     !.partial = @ \ outFiles']

\* history of the scans.  base is the Library Index, the Transcode State and
\* the job queue as a scan left them, kept while nothing but the next scan
\* runs: a scan counts (clean) when it ran alone, over a file system that did
\* not change and with no step of the worker or of a converter since it
\* started.  When the next such scan ends, what it leaves is compared with base.
AuditAfter ==
  LET snap == <<readyBooks', transcodeStatus', queue'>>
      dirty == [audit EXCEPT !.base = NoSnapshot, !.clean = FALSE]
  IN  CASE srcMtime' # srcMtime \/ srcDuration' # srcDuration \/ outFiles' # outFiles -> dirty
        [] Len(scans') > Len(scans) ->
             IF scans # <<>> THEN dirty
             ELSE IF audit.clean THEN audit
             ELSE [audit EXCEPT !.base = NoSnapshot, !.clean = TRUE]
        [] Len(scans') < Len(scans) ->
             IF scans' # <<>> \/ ~audit.clean THEN dirty
             ELSE [audit EXCEPT !.base = snap,
                                !.compared = @ \/ audit.base # NoSnapshot,
                                !.same = @ /\ (audit.base = NoSnapshot \/ audit.base = snap)]
        [] scans' # scans -> audit
        [] timers' # timers \/ burst' # burst -> audit
        [] OTHER -> dirty

\* what every step of the process leaves alone, and the two histories
Observe ==
  /\ UNCHANGED streamVars
  /\ UNCHANGED chan
  /\ UNCHANGED unitVars
  /\ boot' = BootAfter
  /\ audit' = IF audit.on THEN AuditAfter ELSE audit

StreamIdle ==
  /\ dir = [kind |-> "none"] /\ book = NoBook /\ rangeHeader = NoHeader
  /\ response = NoResponse /\ enclosure = -1

\* startup with an empty data directory: both files absent, the initial scan
\* started, the worker waiting on the channel, the watchers installed
InitProcess ==
  /\ StreamIdle
  /\ srcMtime = [s \in Sources |-> 1]
  /\ srcDuration \in [Sources -> BOOLEAN]
  /\ outFiles = {}
  /\ transcodeStatus = [s \in Sources |-> NoStatus]
  /\ readyBooks = [s \in Sources |-> NoBook]
  /\ queue = <<>>
  /\ queuedSources = {}
  /\ diskStatus = [s \in Sources |-> NoStatus]
  /\ diskIndex = [s \in Sources |-> NoBook]
  /\ scans = <<NewScan>>
  /\ rescanTimer = FALSE
  /\ timers = 0
  /\ burst = 0
  /\ worker = WorkerIdle("none")
  /\ running = <<>>
  /\ chan = <<>>
  /\ UnitIdle

Init == InitProcess /\ boot = NoBoot /\ audit = NoAudit

\* ---- file system and watcher ----

\* scheduleRescan: while the handle is set the call returns, otherwise a
\* timeout is set and its handle kept
scheduleRescanUnguarded ==
  /\ rescanTimer' = TRUE
  /\ timers' = timers + 1
  /\ burst' = IF rescanTimer THEN Min(burst + 1, MaxBurst) ELSE 1

scheduleRescan ==
  IF rescanTimer
    THEN /\ UNCHANGED <<rescanTimer, timers>>
         /\ burst' = Min(burst + 1, MaxBurst)
    ELSE /\ rescanTimer' = TRUE
         /\ timers' = timers + 1
         /\ burst' = 1

\* a removed source has no mtime, written 0
Exists(s) == srcMtime[s] > 0

\* a source file is rewritten; the watcher's callback schedules a rescan
\* (the restart scenarios leave the sources unchanged after the restart)
FsTouch(s) ==
  /\ Exists(s)
  /\ srcMtime[s] < MaxMtime
  /\ ~boot.restarted
  /\ srcMtime' = [srcMtime EXCEPT ![s] = @ + 1]
  /\ \E d \in BOOLEAN : srcDuration' = [srcDuration EXCEPT ![s] = d]
  /\ scheduleRescan
  /\ UNCHANGED <<outFiles, transcodeStatus, readyBooks, queue, queuedSources,
                 diskStatus, diskIndex, scans, worker, running>>
  /\ Observe

\* any other change under a scan root (a file that is not a source is added,
\* renamed or removed): the watcher's callback schedules a rescan
FsEvent ==
  /\ timers < MaxTimers
  /\ scheduleRescan
  /\ UNCHANGED <<srcMtime, srcDuration, outFiles, transcodeStatus, readyBooks, queue,
                 queuedSources, diskStatus, diskIndex, scans, worker, running>>
  /\ Observe

\* a timeout of scheduleRescan runs: the handle is cleared and a scan starts,
\* whether or not an earlier scan is still in progress
TimerFireKeepsHandle(limit) ==
  /\ timers > 0
  /\ Len(scans) < limit
  /\ timers' = timers - 1
  /\ burst' = 0
  /\ scans' = Append(scans, NewScan)
  /\ UNCHANGED <<srcMtime, srcDuration, outFiles, transcodeStatus, readyBooks, queue,
                 queuedSources, diskStatus, diskIndex, worker, running, rescanTimer>>
  /\ Observe

TimerFireOver(limit) ==
  /\ timers > 0
  /\ Len(scans) < limit
  /\ timers' = timers - 1
  /\ rescanTimer' = FALSE
  /\ burst' = 0
  /\ scans' = Append(scans, NewScan)
  /\ UNCHANGED <<srcMtime, srcDuration, outFiles, transcodeStatus, readyBooks, queue,
                 queuedSources, diskStatus, diskIndex, worker, running>>
  /\ Observe

TimerFire == TimerFireOver(MaxScans)

\* ---- scanner ----

\* the scan moves on to the next book directory, or to its final saves
NextBook(sc) ==
  IF sc.idx < Len(ScanOrder)
    THEN [sc EXCEPT !.pc = "stat", !.idx = @ + 1, !.mtimeMs = 0]
    ELSE [sc EXCEPT !.pc = "indexSnap", !.mtimeMs = 0]

\* transcodeStatus.set(source, fresh): the map now holds another object than
\* the one the worker may be updating
SetStatus(source, fresh) ==
  /\ transcodeStatus' = [transcodeStatus EXCEPT ![source] = fresh]
  /\ worker' = IF worker.job.source = source THEN [worker EXCEPT !.linked = FALSE]
               ELSE worker

\* buildBook's guard of the push: the source is not queued or being worked
PushesAlways(source) == TRUE
Pushes(source) == source \notin queuedSources

\* buildBook, single: a fresh pending status replaces the entry; the job is
\* pushed unless the source is in the queued set
SetPending(source, mtimeMs) ==
  LET existingStatus == transcodeStatus[source]
      needsReset == existingStatus = NoStatus \/ existingStatus.mtimeMs # mtimeMs
      pending == TranscodeStatus(source, mtimeMs, "pending",
                   IF needsReset THEN "" ELSE existingStatus.error)
  IN  /\ SetStatus(source, pending)
      /\ IF Pushes(source)
           THEN /\ queuedSources' = queuedSources \cup {source}
                /\ queue' = Append(queue, TranscodeJob(source, mtimeMs))
           ELSE UNCHANGED <<queue, queuedSources>>

\* buildBook up to the stat of the .m4b; the walk does not come to a book
\* whose file is gone
ScanStat(i) ==
  LET sc == scans[i] IN
  /\ sc.pc = "stat"
  /\ scans' = [scans EXCEPT ![i] = IF Exists(ScanOrder[sc.idx])
                                     THEN [sc EXCEPT !.pc = "build",
                                                     !.mtimeMs = srcMtime[ScanOrder[sc.idx]]]
                                     ELSE NextBook(sc)]
  /\ UNCHANGED <<srcMtime, srcDuration, outFiles, transcodeStatus, readyBooks, queue,
                 queuedSources, diskStatus, diskIndex, rescanTimer, timers, burst, worker, running>>
  /\ Observe

\* buildBook's test for a finished transcode of this very file (the target is
\* looked up next)
ReusableNever(existing, mtimeMs) == FALSE
ReusableDone(existing, mtimeMs) == existing.state = "done" /\ existing.mtimeMs = mtimeMs

\* buildBook, single, from the duration probe to its next await
ScanBuild(i) ==
  LET sc == scans[i]
      source == ScanOrder[sc.idx]
      existing == transcodeStatus[source]
  IN
  /\ sc.pc = "build"
  /\ IF ~srcDuration[source]
       THEN /\ SetStatus(source, TranscodeStatus(source, sc.mtimeMs, "failed",
                                                 "ffprobe duration missing"))
            /\ scans' = [scans EXCEPT ![i] = [sc EXCEPT !.pc = "statusSnap"]]
            /\ UNCHANGED <<queue, queuedSources>>
       ELSE IF ReusableDone(existing, sc.mtimeMs)
         THEN /\ scans' = [scans EXCEPT ![i] = [sc EXCEPT !.pc = "exists"]]
              /\ UNCHANGED <<transcodeStatus, worker, queue, queuedSources>>
         ELSE /\ SetPending(source, sc.mtimeMs)
              /\ scans' = [scans EXCEPT ![i] = NextBook(sc)]
  /\ UNCHANGED <<srcMtime, srcDuration, outFiles, readyBooks, diskStatus, diskIndex,
                 rescanTimer, timers, burst, running>>
  /\ Observe

\* after fileExists(existing.target): the ready Book goes into readyBooks, or
\* the book is pending again
ScanExists(i) ==
  LET sc == scans[i]
      source == ScanOrder[sc.idx]
      target == transcodeOutputPath(source, sc.mtimeMs)
  IN
  /\ sc.pc = "exists"
  /\ IF target \in outFiles \cup boot.partial
       THEN /\ readyBooks' = [readyBooks EXCEPT ![source] = bookFromMeta(target)]
            /\ UNCHANGED <<transcodeStatus, worker, queue, queuedSources>>
       ELSE /\ SetPending(source, sc.mtimeMs)
            /\ UNCHANGED readyBooks
  /\ scans' = [scans EXCEPT ![i] = NextBook(sc)]
  /\ UNCHANGED <<srcMtime, srcDuration, outFiles, diskStatus, diskIndex, rescanTimer, timers, burst,
                 running>>
  /\ Observe

\* saveLibraryIndex / saveTranscodeStatus of a scan: the payload is built
ScanSnapshot(i) ==
  LET sc == scans[i] IN
  /\ sc.pc \in {"indexSnap", "statusSnap", "finalSnap"}
  /\ scans' = [scans EXCEPT ![i] =
       [sc EXCEPT !.payload = IF sc.pc = "indexSnap" THEN readyBooks ELSE transcodeStatus,
                  !.pc = CASE sc.pc = "indexSnap" -> "indexWrite"
                           [] sc.pc = "statusSnap" -> "statusWrite"
                           [] sc.pc = "finalSnap" -> "finalWrite"]]
  /\ UNCHANGED <<srcMtime, srcDuration, outFiles, transcodeStatus, readyBooks, queue,
                 queuedSources, diskStatus, diskIndex, rescanTimer, timers, burst, worker, running>>
  /\ Observe

\* ... and written: after the library index the scan saves the transcode
\* status and ends; after the save of a failed probe it goes to the next book
ScanWrite(i) ==
  LET sc == scans[i] IN
  /\ sc.pc \in {"indexWrite", "statusWrite", "finalWrite"}
  /\ IF sc.pc = "indexWrite"
       THEN diskIndex' = sc.payload /\ UNCHANGED diskStatus
       ELSE diskStatus' = sc.payload /\ UNCHANGED diskIndex
  /\ scans' = CASE sc.pc = "indexWrite" ->
                     [scans EXCEPT ![i] = [sc EXCEPT !.pc = "finalSnap", !.payload = NoPayload]]
                [] sc.pc = "statusWrite" ->
                     [scans EXCEPT ![i] = [NextBook(sc) EXCEPT !.payload = NoPayload]]
                [] sc.pc = "finalWrite" -> RemoveAt(scans, i)
  /\ UNCHANGED <<srcMtime, srcDuration, outFiles, transcodeStatus, readyBooks, queue,
                 queuedSources, rescanTimer, timers, burst, worker, running>>
  /\ Observe

\* ---- worker ----

\* workerLoop's test of a dequeued job against the status of its source
StaleOnlyWhenMissing(status, job) == status = NoStatus
Stale(status, job) == status = NoStatus \/ status.mtimeMs # job.mtimeMs

\* the worker writes a field of its status object; the map shows it while the
\* map still holds that object
Mutate(state, error) ==
  LET status == [worker.status EXCEPT !.state = state, !.error = error] IN
  [w |-> [worker EXCEPT !.status = status],
   map |-> IF worker.linked THEN [transcodeStatus EXCEPT ![worker.job.source] = status]
           ELSE transcodeStatus]

\* queuedSources.delete(job.source), of the stale drop and of finally
DeleteNothing(source) == queuedSources
Delete(source) == queuedSources \ {source}

\* stream() yields the head of the queue: a stale job is dropped, any other
\* is marked working and saved
WorkerTake ==
  LET job == Head(queue)
      status == transcodeStatus[job.source]
  IN
  /\ worker.pc = "idle"
  /\ queue # <<>>
  /\ queue' = Tail(queue)
  /\ IF Stale(status, job)
       THEN /\ queuedSources' = Delete(job.source)
            /\ worker' = WorkerIdle("dropped")
            /\ UNCHANGED transcodeStatus
       ELSE LET working == [status EXCEPT !.state = "working", !.error = ""] IN
            /\ worker' = [pc |-> "workingSnap", job |-> job, status |-> working,
                          linked |-> TRUE, payload |-> NoPayload, last |-> worker.last]
            /\ transcodeStatus' = [transcodeStatus EXCEPT ![job.source] = working]
            /\ UNCHANGED queuedSources
  /\ UNCHANGED <<srcMtime, srcDuration, outFiles, readyBooks, diskStatus, diskIndex,
                 scans, rescanTimer, timers, burst, running>>
  /\ Observe

\* saveTranscodeStatus / saveLibraryIndex of the worker: the payload is built
WorkerSnapshot ==
  /\ worker.pc \in {"workingSnap", "doneSnap", "failedSnap", "indexSnap"}
  /\ worker' = [worker EXCEPT
       !.payload = IF worker.pc = "indexSnap" THEN readyBooks ELSE transcodeStatus,
       !.pc = CASE worker.pc = "workingSnap" -> "workingWrite"
                [] worker.pc = "doneSnap" -> "doneWrite"
                [] worker.pc = "failedSnap" -> "failedWrite"
                [] worker.pc = "indexSnap" -> "indexWrite"]
  /\ UNCHANGED <<srcMtime, srcDuration, outFiles, transcodeStatus, readyBooks, queue,
                 queuedSources, diskStatus, diskIndex, scans, rescanTimer, timers, burst, running>>
  /\ Observe

\* the status save of "working" completes: the converter is called next
WorkerSavedWorking ==
  /\ worker.pc = "workingWrite"
  /\ diskStatus' = worker.payload
  /\ worker' = [worker EXCEPT !.pc = "spawn", !.payload = NoPayload]
  /\ UNCHANGED <<srcMtime, srcDuration, outFiles, transcodeStatus, readyBooks, queue,
                 queuedSources, diskIndex, scans, rescanTimer, timers, burst, running>>
  /\ Observe

\* transcodeM4bToMp3 up to Bun.spawn.  workerLoop passes the progress callback
\* in the place of coverPath: the stat of it fails, so no cover is attached,
\* and onProgress is undefined
WorkerSpawn ==
  /\ worker.pc = "spawn"
  /\ Len(running) < MaxProcs
  /\ running' = Append(running, worker.job.target)
  /\ worker' = [worker EXCEPT !.pc = "reading"]
  /\ UNCHANGED <<srcMtime, srcDuration, outFiles, transcodeStatus, readyBooks, queue,
                 queuedSources, diskStatus, diskIndex, scans, rescanTimer, timers, burst>>
  /\ Observe

\* the worker's catch block
WorkerCatch(error) ==
  LET m == Mutate("failed", error) IN
  /\ worker' = [m.w EXCEPT !.pc = "failedSnap"]
  /\ transcodeStatus' = m.map

\* the converter writes a progress block with out_time or speed: the read
\* loop calls onProgress, which is undefined; the call throws, the worker
\* records the failure, and the converter process is left running
ConverterProgress ==
  /\ worker.pc = "reading"
  /\ WorkerCatch("onProgress is not a function")
  /\ UNCHANGED <<srcMtime, srcDuration, outFiles, readyBooks, queue, queuedSources,
                 diskStatus, diskIndex, scans, rescanTimer, timers, burst, running>>
  /\ Observe

\* the converter the worker waits for exits without a progress block: on
\* exit code 0 the output is stamped and the status becomes done (the
\* converter cannot end well on a file that is gone)
ConverterExit(ok) ==
  /\ worker.pc = "reading"
  /\ ok => Exists(worker.job.source)
  /\ running' = SubSeq(running, 1, Len(running) - 1)
  /\ IF ok
       THEN LET m == Mutate("done", "") IN
            /\ outFiles' = outFiles \cup {worker.job.target}
            /\ worker' = [m.w EXCEPT !.pc = "doneSnap"]
            /\ transcodeStatus' = m.map
       ELSE /\ WorkerCatch("ffmpeg failed with status 1")
            /\ UNCHANGED outFiles
  /\ UNCHANGED <<srcMtime, srcDuration, readyBooks, queue, queuedSources, diskStatus,
                 diskIndex, scans, rescanTimer, timers, burst>>
  /\ Observe

\* a converter process nobody waits for any more runs to its end
OrphanExit(i, ok) ==
  /\ i \in 1..Len(running)
  /\ worker.pc = "reading" => i < Len(running)
  /\ ok => Exists(running[i][1])
  /\ running' = RemoveAt(running, i)
  /\ outFiles' = IF ok THEN outFiles \cup {running[i]} ELSE outFiles
  /\ UNCHANGED <<srcMtime, srcDuration, transcodeStatus, readyBooks, queue,
                 queuedSources, diskStatus, diskIndex, scans, rescanTimer, timers, burst, worker>>
  /\ Observe

\* the status save of "done" completes: the Book is built from the job's meta
\* and inserted, and the library index is saved
WorkerSavedDone ==
  /\ worker.pc = "doneWrite"
  /\ diskStatus' = worker.payload
  /\ readyBooks' = [readyBooks EXCEPT ![worker.job.source] = bookFromMeta(worker.job.target)]
  /\ worker' = [worker EXCEPT !.pc = "indexSnap", !.payload = NoPayload]
  /\ UNCHANGED <<srcMtime, srcDuration, outFiles, transcodeStatus, queue, queuedSources,
                 diskIndex, scans, rescanTimer, timers, burst, running>>
  /\ Observe

\* the last save of a job completes (the library index on success, the status
\* on failure); finally: the source leaves the queued set
WorkerFinally ==
  /\ worker.pc \in {"indexWrite", "failedWrite"}
  /\ IF worker.pc = "indexWrite"
       THEN diskIndex' = worker.payload /\ UNCHANGED diskStatus
       ELSE diskStatus' = worker.payload /\ UNCHANGED diskIndex
  /\ queuedSources' = Delete(worker.job.source)
  /\ worker' = WorkerIdle(IF worker.pc = "indexWrite" THEN "done" ELSE "failed")
  /\ UNCHANGED <<srcMtime, srcDuration, outFiles, transcodeStatus, readyBooks, queue,
                 scans, rescanTimer, timers, burst, running>>
  /\ Observe

Next ==
  \/ \E s \in Sources : FsTouch(s)
  \/ TimerFire
  \/ \E i \in 1..Len(scans) : ScanStat(i)
  \/ \E i \in 1..Len(scans) : ScanBuild(i)
  \/ \E i \in 1..Len(scans) : ScanExists(i)
  \/ \E i \in 1..Len(scans) : ScanSnapshot(i)
  \/ \E i \in 1..Len(scans) : ScanWrite(i)
  \/ WorkerTake
  \/ WorkerSnapshot
  \/ WorkerSavedWorking
  \/ WorkerSpawn
  \/ ConverterProgress
  \/ \E ok \in BOOLEAN : ConverterExit(ok)
  \/ \E i \in 1..Len(running), ok \in BOOLEAN : OrphanExit(i, ok)
  \/ WorkerSavedDone
  \/ WorkerFinally

Spec == Init /\ [][Next]_vars

\* the watcher, the debounce timer and the scans alone, under events of every
\* kind; the worker is not started
WatchNext ==
  \/ \E s \in Sources : FsTouch(s)
  \/ FsEvent
  \/ TimerFire
  \/ \E i \in 1..Len(scans) : ScanStat(i)
  \/ \E i \in 1..Len(scans) : ScanBuild(i)
  \/ \E i \in 1..Len(scans) : ScanSnapshot(i)
  \/ \E i \in 1..Len(scans) : ScanWrite(i)
WatchSpec == Init /\ [][WatchNext]_vars

(***************************************************************************)
(* Properties of the stream assembler, the scanner's multi books and the   *)
(* size predictor.                                                         *)
(***************************************************************************)
\* the parts of a directory in increasing order of their names
InNameOrder(parts) ==
  CHOOSE s \in [1..Cardinality(parts) -> parts] :
    \A i, j \in 1..Cardinality(parts) : i < j => NameLess(s[i].name, s[j].name)

\* tag || audio, the audio being the part files of the directory in name order
ExpectedObject(d, b) ==
  IF d.kind = "single" THEN PrimaryBytes(d.outSize)
  ELSE StreamTag(b)
       \o Concat([i \in 1..Cardinality(d.parts) |->
                    FileBytes(InNameOrder(d.parts)[i].name, InNameOrder(d.parts)[i].size)])

Answered == book # NoBook /\ response # NoResponse

\* C1: for a ready book and a range A..B with 0 <= A <= B < virtual size, the body of
\* the response to "bytes=A-B" is bytes A..B of tag || audio (the parts in sorted
\* order), and when the range starts inside the tag the first chunk emitted is the
\* tag's slice.
C1_BodyIsRangeOfVirtualObject ==
  Answered =>
    LET tagLength == TagLength(book)
        object == ExpectedObject(dir, book)
        size == Len(object)
    IN  \A a, z \in Positions(tagLength, size) :
          (a <= z /\ z < size /\ rangeHeader = RangeOf(ToDigits(a), ToDigits(z))) =>
            /\ Body(response) = SubSeq(object, a + 1, z + 1)
            /\ (book.kind = "multi" /\ a < tagLength) =>
                 response.chunks[1] = SubSeq(object, a + 1, Min(z, tagLength - 1) + 1)

\* a range that starts in the tag and ends in the second part has been served
C1_Witness ==
  /\ Answered
  /\ book.kind = "multi"
  /\ Len(book.files) >= 2
  /\ LET tagLength == TagLength(book)
     IN  /\ rangeHeader = RangeOf(ToDigits(tagLength - 1),
                                  ToDigits(tagLength + book.files[1].size))
         /\ Len(response.chunks) = 3

\* C2: for a multi book the size predictor equals the length of the tag the stream
\* endpoint builds, so the feed's enclosure length equals the bytes of an un-ranged
\* stream response.
C2_EstimateMatchesTag ==
  (book # NoBook /\ book.kind = "multi") =>
    /\ estimateId3TagLength(book) = Len(StreamTag(book))
    /\ (enclosure # -1 /\ response # NoResponse) => enclosure = Len(Body(response))

\* the 206 response of a range start..end of an object of size total
IsPartial(r, start, end, total) ==
  /\ r.status = 206
  /\ r.contentLength = end - start + 1
  /\ r.contentRange = [unit |-> "bytes", star |-> FALSE, start |-> start, end |-> end,
                       size |-> total]

\* C3: a valid range (A <= B, A < total) is answered 206 with Content-Length
\* end-start+1 and Content-Range bytes start-end/total, end = min(B, total-1); "A-"
\* runs to the last byte; "-N" (1 <= N <= total) selects the last N bytes; a range
\* starting at total-1 is a single-byte 206.
C3_ValidRangeIsPartial ==
  Answered =>
    LET tagLength == TagLength(book)
        total == tagLength + book.totalSize
    IN  /\ \A a \in Positions(tagLength, total) :
             a < total =>
               /\ \A z \in Positions(tagLength, total) :
                    (a <= z /\ rangeHeader = RangeOf(ToDigits(a), ToDigits(z))) =>
                      /\ IsPartial(response, a, Min(z, total - 1), total)
                      /\ a = total - 1 => response.contentLength = 1
               /\ rangeHeader = RangeOf(ToDigits(a), <<>>) =>
                    IsPartial(response, a, total - 1, total)
        /\ \A n \in 1..total :
             rangeHeader = RangeOf(<<>>, ToDigits(n)) =>
               IsPartial(response, total - n, total - 1, total)

\* a range that starts at the last byte and ends past it has been served
C3_Witness ==
  /\ Answered
  /\ book.kind = "multi"
  /\ LET total == VirtualSize(book)
     IN  /\ rangeHeader = RangeOf(ToDigits(total - 1), ToDigits(total + 1))
         /\ response.status = 206

\* the headers the parser rejects: a malformed unit, a non-numeric bound, A > B,
\* A >= size, and the zero-length suffix
Rejected(h, total) ==
  \/ h \in MalformedHeaders
  \/ h = RangeOf(<<>>, <<"0">>)
  \/ \E a \in Positions(0, total) :
       \/ a >= total /\ h = RangeOf(ToDigits(a), <<>>)
       \/ \E z \in Positions(0, total) :
            (a > z \/ a >= total) /\ h = RangeOf(ToDigits(a), ToDigits(z))

\* C4: a rejected Range header is treated as no Range header: 200, Content-Length =
\* total size, no Content-Range, the whole object as body, for single and multi alike.
C4_RejectedRangeServesWhole ==
  (Answered /\ Rejected(rangeHeader, VirtualSize(book))) =>
    /\ response.status = 200
    /\ response.contentLength = VirtualSize(book)
    /\ response.contentRange = NoContentRange
    /\ Body(response) = ExpectedObject(dir, book)

\* C5: a request whose range start is >= total size is answered 416 with
\* Content-Range */total.
C5_StartPastEndIs416 ==
  Answered =>
    LET total == VirtualSize(book)
    IN  \A a \in Positions(0, total) :
          (a >= total /\ rangeHeader = RangeOf(ToDigits(a), <<>>)) =>
            /\ response.status = 416
            /\ response.contentRange.unit = "bytes"
            /\ response.contentRange.star
            /\ response.contentRange.size = total

\* C6: in a multi book the scanner produces, files[1].start = 0, each start is the
\* sum of the sizes before it, each end is start + size - 1, the sizes are those of
\* the directory's parts in name order, and totalSize is the sum of the sizes.
C6_SegmentsContiguous ==
  (book # NoBook /\ book.kind = "multi") =>
    LET files == book.files
        parts == InNameOrder(dir.parts)
    IN  /\ Len(files) = Cardinality(dir.parts)
        /\ files[1].start = 0
        /\ \A i \in 1..Len(files) :
             /\ files[i].size = parts[i].size
             /\ files[i].start = SumSeq([k \in 1..(i - 1) |-> parts[k].size])
             /\ files[i].end = files[i].start + files[i].size - 1
        /\ book.totalSize = SumSeq([k \in 1..Len(files) |-> parts[k].size])
        /\ files[Len(files)].end + 1 = book.totalSize

\* a multi book of two parts of different sizes has been built
C6_Witness ==
  /\ book # NoBook
  /\ book.kind = "multi"
  /\ Len(book.files) = 2
  /\ book.files[1].size # book.files[2].size
  /\ book.files[2].start > 0

\* C7: the chapter timings of a multi book have one chapter per part, chapter i
\* starting at the sum of the durations of the parts before it and ending at its
\* start plus the duration of part i.
C7_ChaptersContiguous ==
  (book # NoBook /\ book.kind = "multi") =>
    LET files == book.files
        chapters == buildChapterTimings(book)
    IN  /\ Len(chapters) = Len(files)
        /\ \A i \in 1..Len(files) :
             /\ chapters[i].startMs = SumSeq([k \in 1..(i - 1) |-> files[k].durationMs])
             /\ chapters[i].endMs = chapters[i].startMs + files[i].durationMs
             /\ i > 1 => chapters[i].startMs = chapters[i - 1].endMs

\* a multi book of two parts with positive durations has been built
C7_Witness ==
  /\ book # NoBook
  /\ book.kind = "multi"
  /\ Len(book.files) = 2
  /\ book.files[1].durationMs > 0
  /\ book.files[2].durationMs > 0
  /\ buildChapterTimings(book)[2].startMs > 0

(***************************************************************************)
(* Properties of the transcode worker (Spec).                              *)
(***************************************************************************)

\* C8: at most one converter process is alive at any time, whatever the
\* interleaving of the initial scan, rescans, file-system events and pushes.
C8_AtMostOneTranscode == Len(running) <= 1

\* the worker takes the head of the queue (no other step shortens the queue)
Dequeues == worker.pc = "idle" /\ queue # <<>> /\ queue' = Tail(queue)

\* C9: when the worker dequeues a job whose source has no TranscodeStatus, or
\* one with another mtime than the job's, the job is dropped: no converter is
\* started, the worker is back waiting on the channel, and neither the
\* Transcode State nor the Library Index changes, in memory or on disk.
C9_StaleJobDropped ==
  [][ ( /\ Dequeues
        /\ \/ transcodeStatus[Head(queue).source] = NoStatus
           \/ transcodeStatus[Head(queue).source].mtimeMs # Head(queue).mtimeMs )
      => /\ running' = running
         /\ worker'.pc = "idle"
         /\ transcodeStatus' = transcodeStatus
         /\ readyBooks' = readyBooks
         /\ diskStatus' = diskStatus
         /\ diskIndex' = diskIndex ]_vars

\* a job pushed for mtime 1 was dropped after a rescan had seen the touched source
C9_Witness ==
  /\ worker.pc = "idle"
  /\ worker.last = "dropped"
  /\ \E s \in Sources : transcodeStatus[s] # NoStatus /\ transcodeStatus[s].mtimeMs > 1

\* C10: the persisted Library Index never holds a single Book whose source's
\* persisted TranscodeStatus is not done (the worker persists done before it
\* inserts the Book and saves the index).
C10_IndexedBookIsDoneOnDisk ==
  \A s \in Sources : diskIndex[s] # NoBook => diskStatus[s].state = "done"

(***************************************************************************)
(* Properties of the scanner and the worker together.                      *)
(***************************************************************************)

\* a scan is about to run buildBook's single branch for the source the worker
\* is transcoding, having seen the mtime the job was pushed for
RescanSeesJobMtime(i) ==
  /\ worker.pc \in {"spawn", "reading"}
  /\ worker.linked
  /\ scans[i].pc \in {"build", "exists"}
  /\ ScanOrder[scans[i].idx] = worker.job.source
  /\ scans[i].mtimeMs = worker.job.mtimeMs

\* C11: a TranscodeStatus is mutated only by the worker or invalidated by a
\* rescan that sees a newer mtime: a scan step that has seen the unchanged
\* mtime of the source the worker is transcoding leaves the entry of the
\* Transcode State as it is, the object the worker is updating.
C11_RescanKeepsWorkersStatus ==
  [][ \A i \in 1..Len(scans) :
        (RescanSeesJobMtime(i) /\ scans' # scans)
        => /\ worker'.linked
           /\ transcodeStatus'[worker.job.source] = transcodeStatus[worker.job.source] ]_vars

(***************************************************************************)
(* Restart.  The process is killed and started again: the in-memory maps   *)
(* are loaded from the two files, the startup scan and a fresh worker      *)
(* begin, and the converter, whose pipe the process held, dies with it.    *)
(***************************************************************************)
loadTranscodeStatus(content) ==
  [s \in Sources |-> IF content[s].state = "none" THEN NoStatus ELSE content[s]]

loadLibraryIndex(content) ==
  [s \in Sources |-> IF content[s] = NoBook THEN NoBook ELSE content[s]]

\* the singles whose transcode has completed, every save of it included: the
\* status in memory is done for the source as it is now, the target exists,
\* and neither a scan nor the worker is in the middle of anything
Completed ==
  {s \in Sources :
     /\ transcodeStatus[s].state = "done"
     /\ transcodeStatus[s].mtimeMs = srcMtime[s]
     /\ transcodeStatus[s].target \in outFiles
     /\ scans = <<>> /\ worker.pc = "idle" /\ queue = <<>>}

\* the singles whose done status the worker has persisted, the source as it
\* is now and the target in place, while the worker is still about to save
\* the Library Index, whose file does not hold the Book
DoneUnindexed ==
  {s \in Sources :
     /\ worker.pc \in {"indexSnap", "indexWrite"}
     /\ worker.job.source = s
     /\ diskStatus[s].state = "done"
     /\ diskStatus[s].mtimeMs = srcMtime[s]
     /\ diskStatus[s].target \in outFiles
     /\ diskIndex[s] # bookFromMeta(diskStatus[s].target)}

\* the singles whose converter is running for the worker, the status working
\* persisted for the source as it is now
MidTranscode ==
  {s \in Sources :
     /\ worker.pc = "reading"
     /\ worker.job.source = s
     /\ diskStatus[s].state = "working"
     /\ diskStatus[s].mtimeMs = srcMtime[s]}

\* the process is killed and started again.  The files the killed converters
\* were writing stay where they are, half written: they exist, they are not
\* outputs
Restart ==
  /\ ~boot.restarted
  /\ boot' = [restarted |-> TRUE, startup |-> TRUE, complete |-> Completed,
               unindexed |-> DoneUnindexed, midway |-> MidTranscode,
               partial |-> {running[i] : i \in 1..Len(running)}]
  /\ outFiles' = outFiles \ {running[i] : i \in 1..Len(running)}
  /\ transcodeStatus' = loadTranscodeStatus(diskStatus)
  /\ readyBooks' = loadLibraryIndex(diskIndex)
  /\ queue' = <<>>
  /\ queuedSources' = {}
  /\ scans' = <<NewScan>>
  /\ rescanTimer' = FALSE
  /\ timers' = 0
  /\ burst' = 0
  /\ worker' = WorkerIdle("none")
  /\ running' = <<>>
  /\ UNCHANGED <<srcMtime, srcDuration, diskStatus, diskIndex, audit, chan>>
  /\ UNCHANGED unitVars
  /\ UNCHANGED streamVars

RestartNext ==
  \/ \E s \in Sources : FsTouch(s)
  \/ TimerFire
  \/ \E i \in 1..Len(scans) : ScanStat(i)
  \/ \E i \in 1..Len(scans) : ScanBuild(i)
  \/ \E i \in 1..Len(scans) : ScanExists(i)
  \/ \E i \in 1..Len(scans) : ScanSnapshot(i)
  \/ \E i \in 1..Len(scans) : ScanWrite(i)
  \/ WorkerTake
  \/ WorkerSnapshot
  \/ WorkerSavedWorking
  \/ WorkerSpawn
  \/ ConverterProgress
  \/ \E ok \in BOOLEAN : ConverterExit(ok)
  \/ \E i \in 1..Len(running), ok \in BOOLEAN : OrphanExit(i, ok)
  \/ WorkerSavedDone
  \/ WorkerFinally
  \/ Restart

RestartSpec == Init /\ [][RestartNext]_vars

\* C12: a single whose transcode had completed when the process was restarted,
\* its source unchanged since, keeps the status done after the restart, gets
\* no transcode job from the startup scan, and once the startup scan has ended
\* the Library Index holds its Book, the completed output as primary file.
C12_CompletedSurvivesRestart ==
  boot.restarted =>
    \A s \in boot.complete :
      /\ transcodeStatus[s].state = "done"
      /\ \A k \in 1..Len(queue) : queue[k].source # s
      /\ worker.job.source # s
      /\ ~boot.startup => readyBooks[s] = bookFromMeta(transcodeOutputPath(s, srcMtime[s]))

\* the outputs made from earlier versions of a source
PreviousOutputs(s) == {transcodeOutputPath(s, m) : m \in 0..(srcMtime[s] - 1)}

\* C13: once a rescan that saw the newer mtime of a single has ended (the
\* status is pending, or working, for the source as it is now), and until the
\* worker has made the new output, the Library Index holds no Book for the
\* source whose primary file is an output of the previous version.
C13_TouchedSingleLeavesIndex ==
  \A s \in Sources :
    (/\ scans = <<>>
     /\ transcodeStatus[s].state \in {"pending", "working"}
     /\ transcodeStatus[s].mtimeMs = srcMtime[s]
     /\ readyBooks[s] # NoBook)
    => readyBooks[s].primaryFile \notin PreviousOutputs(s)

(***************************************************************************)
(* Removal.  A source file, or its directory, is removed; the watcher      *)
(* schedules a rescan, whose walk no longer comes to the book.             *)
(***************************************************************************)
FsRemove(s) ==
  /\ Exists(s)
  /\ srcMtime' = [srcMtime EXCEPT ![s] = 0]
  /\ scheduleRescan
  /\ UNCHANGED <<srcDuration, outFiles, transcodeStatus, readyBooks, queue, queuedSources,
                 diskStatus, diskIndex, scans, worker, running>>
  /\ Observe

LifeNext ==
  \/ \E s \in Sources : FsTouch(s)
  \/ \E s \in Sources : FsRemove(s)
  \/ TimerFire
  \/ \E i \in 1..Len(scans) : ScanStat(i)
  \/ \E i \in 1..Len(scans) : ScanBuild(i)
  \/ \E i \in 1..Len(scans) : ScanExists(i)
  \/ \E i \in 1..Len(scans) : ScanSnapshot(i)
  \/ \E i \in 1..Len(scans) : ScanWrite(i)
  \/ WorkerTake
  \/ WorkerSnapshot
  \/ WorkerSavedWorking
  \/ WorkerSpawn
  \/ ConverterProgress
  \/ \E ok \in BOOLEAN : ConverterExit(ok)
  \/ \E i \in 1..Len(running), ok \in BOOLEAN : OrphanExit(i, ok)
  \/ WorkerSavedDone
  \/ WorkerFinally

LifeSpec == Init /\ [][LifeNext]_vars

\* C14: when a source is gone and the rescan its removal scheduled has run to
\* its end (no timer outstanding, no scan running), and no job of the source
\* is left with the worker, the Library Index holds no Book for the source.
C14_RemovedSourceIsEvicted ==
  \A s \in Sources :
    (/\ ~Exists(s)
     /\ timers = 0 /\ scans = <<>>
     /\ worker.pc = "idle" /\ queue = <<>>)
    => readyBooks[s] = NoBook

(***************************************************************************)
(* Scans in succession.  The process under watch events that change no     *)
(* source, so that a scan can follow a scan over the same file system, the *)
(* converter ending without a progress block; the history audit compares   *)
(* what two such scans leave behind.                                       *)
(***************************************************************************)
AuditInit ==
  /\ InitProcess
  /\ boot = NoBoot
  /\ audit = [on |-> TRUE, clean |-> TRUE, base |-> NoSnapshot, compared |-> FALSE,
              same |-> TRUE]

AuditNext ==
  \/ FsEvent
  \/ TimerFire
  \/ \E i \in 1..Len(scans) : ScanStat(i)
  \/ \E i \in 1..Len(scans) : ScanBuild(i)
  \/ \E i \in 1..Len(scans) : ScanExists(i)
  \/ \E i \in 1..Len(scans) : ScanSnapshot(i)
  \/ \E i \in 1..Len(scans) : ScanWrite(i)
  \/ WorkerTake
  \/ WorkerSnapshot
  \/ WorkerSavedWorking
  \/ WorkerSpawn
  \/ \E ok \in BOOLEAN : ConverterExit(ok)
  \/ WorkerSavedDone
  \/ WorkerFinally

AuditSpec == AuditInit /\ [][AuditNext]_vars

\* C15: when two scans run one after the other over a file system that does
\* not change, with no step of the worker or of a converter from the start of
\* the first to the end of the second, the Library Index, the Transcode State
\* and the job queue after the second are what they were after the first.
C15_ScanIsIdempotent == audit.on => audit.same

\* two such scans have been compared, with a job waiting in the queue
C15_Witness ==
  /\ audit.on /\ audit.compared /\ audit.same
  /\ audit.base # NoSnapshot
  /\ queue # <<>>

(***************************************************************************)
(* Rescans of a multi book.  The directory is scanned, one of its parts is *)
(* truncated to nothing or loses its probed duration, and the directory is *)
(* scanned again.  transcodeStatus holds the entries of the parts here.    *)
(***************************************************************************)
\* the first part, in name order, that buildBook gives up on
RECURSIVE FirstBadPart(_)
FirstBadPart(mp3s) ==
  IF mp3s = <<>> THEN <<>>
  ELSE IF Head(mp3s).size <= 0 \/ ~Head(mp3s).durKnown THEN <<Head(mp3s)>>
  ELSE FirstBadPart(Tail(mp3s))

\* the failed entry buildBook sets for a part
PartFailed(name, error) ==
  [source |-> name, target |-> name, state |-> "failed", error |-> error]

\* scanAndQueue reaching the directory again: the failed entry of a bad part
\* is set, and the Book is set when buildBook returned one
RescanDir ==
  LET mp3s == SortParts(dir.parts)
      built == BuildSegments(mp3s, <<>>, 0)
      result == buildBook(dir)
  IN  /\ transcodeStatus' =
           IF built.failed # ""
             THEN [transcodeStatus EXCEPT ![FirstBadPart(mp3s)[1].name] =
                     PartFailed(FirstBadPart(mp3s)[1].name, built.failed)]
             ELSE transcodeStatus
      /\ book' = IF result # NoBook THEN result ELSE book
      /\ UNCHANGED <<dir, rangeHeader, response, enclosure>>
      /\ UNCHANGED <<srcMtime, srcDuration, outFiles, readyBooks, queue, queuedSources,
                     diskStatus, diskIndex, scans, rescanTimer, timers, burst, worker, running,
                     boot, audit, chan, probe, input, output, statusFile>>

\* a part of a sound directory is truncated to nothing, or its duration can
\* no longer be probed
DegradePart ==
  /\ FirstBadPart(SortParts(dir.parts)) = <<>>
  /\ \E p \in dir.parts :
       \E q \in {[p EXCEPT !.size = 0], [p EXCEPT !.durKnown = FALSE]} :
         dir' = [dir EXCEPT !.parts = (dir.parts \ {p}) \cup {q}]
  /\ UNCHANGED <<book, rangeHeader, response, enclosure>>
  /\ UNCHANGED procVars

RescanInit ==
  /\ dir \in {d \in StreamDirs : d.kind = "multi"}
  /\ book = NoBook
  /\ rangeHeader = NoHeader
  /\ response = NoResponse
  /\ enclosure = -1
  /\ transcodeStatus = [n \in PartNames |-> NoStatus]
  /\ srcMtime = <<>> /\ srcDuration = <<>> /\ outFiles = {}
  /\ readyBooks = <<>> /\ queue = <<>> /\ queuedSources = {} /\ diskStatus = <<>>
  /\ diskIndex = <<>> /\ scans = <<>> /\ rescanTimer = FALSE /\ worker = <<>>
  /\ timers = 0 /\ burst = 0 /\ running = <<>> /\ boot = <<>> /\ audit = <<>> /\ chan = <<>>
  /\ UnitIdle

RescanNext == RescanDir \/ DegradePart \/ FeedItem \/ WholeRequest
RescanSpec == RescanInit /\ [][RescanNext]_vars

\* C16: a scan that finds a multi book with a part of zero size or of unknown
\* duration leaves a failed status with an error for that part, and leaves
\* the book out of the Library Index, whatever an earlier scan had put there.
C16_BadPartHidesBook ==
  [][ (RescanDir /\ FirstBadPart(SortParts(dir.parts)) # <<>>)
      => /\ book' = NoBook
         /\ transcodeStatus'[FirstBadPart(SortParts(dir.parts))[1].name].state = "failed"
         /\ transcodeStatus'[FirstBadPart(SortParts(dir.parts))[1].name].error # "" ]_vars

(***************************************************************************)
(* The feed.  handleFeed renders one item per Book of feedBooksSorted,     *)
(* with an enclosure when the Book is streamable.                          *)
(***************************************************************************)
\* the placeholder feedBooksSorted makes from the meta of a status
PlaceholderBook == [kind |-> "single", primaryFile |-> "none"]

\* feedBooksSorted: the ready Books, and a placeholder for every status that
\* is not done and carries meta, unless a ready Book has its id
feedBooksSorted ==
  [s \in Sources |->
     IF readyBooks[s] # NoBook THEN readyBooks[s]
     ELSE IF transcodeStatus[s] # NoStatus /\ transcodeStatus[s].state # "done"
             /\ transcodeStatus[s].meta
       THEN PlaceholderBook
     ELSE NoBook]

\* rssFeed: the ids of the items, and of the items with an enclosure
FeedItems == {s \in Sources : feedBooksSorted[s] # NoBook}
FeedEnclosures == {s \in FeedItems : feedBooksSorted[s].primaryFile # "none"}

\* C17: a single whose TranscodeStatus is pending, working or failed is not an
\* item of the feed.
C17_FeedListsOnlyFinished ==
  \A s \in Sources :
    transcodeStatus[s].state \in {"pending", "working", "failed"} => s \notin FeedItems

(***************************************************************************)
(* The job channel taken alone (createJobChannel): push, and the stream()  *)
(* generator driven by its single consumer.  Each action is one            *)
(* synchronous block of the event loop.  Jobs are numbered in push order;  *)
(* chan.pushed and chan.delivered log what was pushed and what was         *)
(* yielded, chan.woke whether a push has woken the consumer.               *)
(***************************************************************************)
MaxJobs == 3

ChannelInit ==
  /\ StreamIdle
  /\ srcMtime = <<>> /\ srcDuration = <<>> /\ outFiles = {} /\ transcodeStatus = <<>>
  /\ readyBooks = <<>> /\ queuedSources = {} /\ diskStatus = <<>>
  /\ diskIndex = <<>> /\ scans = <<>> /\ rescanTimer = FALSE /\ worker = <<>>
  /\ timers = 0 /\ burst = 0 /\ running = <<>> /\ boot = <<>> /\ audit = <<>>
  /\ UnitIdle
  /\ queue = <<>>
  /\ chan = [wake |-> FALSE, pc |-> "check", pushed |-> <<>>, delivered |-> <<>>,
             woke |-> FALSE]

ChannelRest ==
  /\ UNCHANGED streamVars
  /\ UNCHANGED <<srcMtime, srcDuration, outFiles, transcodeStatus, readyBooks, queuedSources,
                 diskStatus, diskIndex, scans, rescanTimer, timers, burst, worker, running, boot,
                 audit>>
  /\ UNCHANGED unitVars

\* push without the call of wake
WakeNever(c) == [c EXCEPT !.wake = FALSE]

\* if (wake) { wake(); wake = null }: the consumer's promise is resolved
Wake(c) ==
  IF c.wake THEN [c EXCEPT !.wake = FALSE, !.pc = "woken", !.woke = TRUE] ELSE c

\* push(job)
push(source) ==
  LET job == [n |-> Len(chan.pushed) + 1, source |-> source] IN
  /\ Len(chan.pushed) < MaxJobs
  /\ queue' = Append(queue, job)
  /\ chan' = Wake([chan EXCEPT !.pushed = Append(@, job)])
  /\ ChannelRest

\* stream(), from the top of the loop: with an empty queue the consumer parks
\* its resolve function in wake and waits; otherwise the head is yielded
StreamStep ==
  /\ chan.pc = "check"
  /\ IF queue = <<>>
       THEN /\ chan' = [chan EXCEPT !.wake = TRUE, !.pc = "waiting"]
            /\ UNCHANGED queue
       ELSE /\ queue' = Tail(queue)
            /\ chan' = [chan EXCEPT !.delivered = Append(@, Head(queue)), !.pc = "body"]
  /\ ChannelRest

\* the awaited promise was resolved: continue
StreamResume ==
  /\ chan.pc = "woken"
  /\ chan' = [chan EXCEPT !.pc = "check"]
  /\ UNCHANGED queue
  /\ ChannelRest

\* the consumer's loop body is through with the job and asks for the next
ConsumerNext ==
  /\ chan.pc = "body"
  /\ chan' = [chan EXCEPT !.pc = "check"]
  /\ UNCHANGED queue
  /\ ChannelRest

Consume == StreamStep \/ StreamResume \/ ConsumerNext

ChannelNext ==
  \/ \E s \in {"a.m4b", "b.m4b"} : push(s)
  \/ StreamStep
  \/ StreamResume
  \/ ConsumerNext

\* the consumer's steps are continuations on the event loop: they run
ChannelSpec == ChannelInit /\ [][ChannelNext]_vars /\ WF_vars(Consume)

\* C18: what the consumer has been given is what was pushed, in push order and
\* each job once, the rest waiting in the queue; a waiting consumer means an
\* empty queue with its wake handle parked; and every pushed job is delivered
\* in the end.
C18_ChannelDelivers ==
  /\ [](/\ chan.pushed = chan.delivered \o queue
        /\ chan.pc = "waiting" => (queue = <<>> /\ chan.wake)
        /\ chan.wake => chan.pc = "waiting")
  /\ \A n \in 1..MaxJobs : (Len(chan.pushed) >= n) ~> (Len(chan.delivered) >= n)

\* every job was pushed and delivered, and a push has woken the blocked consumer
C18_Witness ==
  /\ Len(chan.delivered) = MaxJobs
  /\ chan.woke
  /\ chan.delivered = chan.pushed

\* the jobs of a source that are queued or in the worker's hands
JobsOf(s) ==
  Cardinality({k \in 1..Len(queue) : queue[k].source = s})
  + (IF worker.pc # "idle" /\ worker.job.source = s THEN 1 ELSE 0)

C20_EventsCoalesce ==
  /\ [](timers <= 1 /\ (rescanTimer <=> timers = 1) /\ (rescanTimer <=> burst > 0))
  /\ [][ /\ (rescanTimer /\ burst' > burst) => UNCHANGED <<timers, rescanTimer, scans>>
         /\ timers' < timers => (Len(scans') = Len(scans) + 1 /\ timers' = 0 /\ ~rescanTimer')
         /\ Len(scans') > Len(scans) => timers' < timers ]_vars

\* a second event has arrived while the rescan was scheduled: one timer
C20_Witness ==
  /\ rescanTimer
  /\ burst = MaxBurst
  /\ timers = 1

(***************************************************************************)
(* Overlapping scans.  The watcher, the timer and the scans as in          *)
(* WatchSpec, with room for a second scan while one is in progress.        *)
(***************************************************************************)
MaxOverlap == 2

OverlapNext ==
  \/ \E s \in Sources : FsTouch(s)
  \/ FsEvent
  \/ TimerFireOver(MaxOverlap)
  \/ \E i \in 1..Len(scans) : ScanStat(i)
  \/ \E i \in 1..Len(scans) : ScanBuild(i)
  \/ \E i \in 1..Len(scans) : ScanSnapshot(i)
  \/ \E i \in 1..Len(scans) : ScanWrite(i)

OverlapSpec == Init /\ [][OverlapNext]_vars

\* C21: no scan starts while a previous scan is still in progress: at most
\* one call of scanAndQueue is in progress at any time.
C21_ScansAreSerial == Len(scans) <= 1

(***************************************************************************)
(* The probe cache taken alone (media/probe-cache), for one path.  probe   *)
(* holds the two in-memory maps' entries for the path, the loaded flag,    *)
(* the entry in the cache file, the number of engine runs, and the last    *)
(* lookup with its result.  The engine's outcome and the success of the    *)
(* file write are inputs of a lookup.                                      *)
(***************************************************************************)
MaxProbeMtime == 2
MaxProbeCalls == 2
MaxDuration == 1

NoRecord == [mtimeMs |-> 0]
\* a duration is <<seconds>>, or <<>> when there is none
NoDuration == <<>>
NoData == [null |-> TRUE, duration |-> NoDuration]
ProbeData(duration) == [null |-> FALSE, duration |-> duration]

\* what ffprobe can answer: a failure, or a format with or without a duration
EngineOutcomes ==
  {[ok |-> FALSE, duration |-> NoDuration]}
  \cup [ok : {TRUE}, duration : {<<d>> : d \in 1..MaxDuration} \cup {NoDuration}]

ensureProbeCacheLoaded(p) ==
  IF p.loaded THEN p ELSE [p EXCEPT !.probeCache = p.disk, !.loaded = TRUE]

\* cached && cached.mtimeMs === mtimeMs
CacheHitAnyMtime(cached, mtimeMs) == cached # NoRecord
CacheHit(cached, mtimeMs) == cached # NoRecord /\ cached.mtimeMs = mtimeMs

\* probeData: the record is returned on a hit; otherwise ffprobe runs, its
\* outcome is stored and the cache file is written (a failed write is logged)
probeData(p, mtimeMs, engine, written) ==
  LET q == ensureProbeCacheLoaded(p)
      cached == q.probeCache
      fresh == [mtimeMs |-> mtimeMs,
                data |-> IF engine.ok THEN ProbeData(engine.duration) ELSE NoData,
                error |-> IF engine.ok THEN "" ELSE "ffprobe failed"]
  IN  IF CacheHit(cached, mtimeMs)
        THEN [p |-> q, data |-> cached.data]
        ELSE [p |-> [q EXCEPT !.probeCache = fresh,
                              !.disk = IF written THEN fresh ELSE @,
                              !.calls = @ + 1],
              data |-> fresh.data]

\* getDurationSeconds: the duration map first, then probeData
getDurationSeconds(p, mtimeMs, engine, written) ==
  LET cached == p.durationCache IN
  IF CacheHit(cached, mtimeMs)
    THEN [p |-> p, duration |-> IF cached.failed THEN NoDuration ELSE cached.duration]
    ELSE LET probed == probeData(p, mtimeMs, engine, written) IN
         IF probed.data = NoData \/ probed.data.duration = NoDuration
           THEN [p |-> [probed.p EXCEPT !.durationCache =
                          [mtimeMs |-> mtimeMs, duration |-> NoDuration, failed |-> TRUE]],
                 duration |-> NoDuration]
           ELSE [p |-> [probed.p EXCEPT !.durationCache =
                          [mtimeMs |-> mtimeMs, duration |-> probed.data.duration,
                           failed |-> FALSE]],
                 duration |-> probed.data.duration]

ProbeRest ==
  /\ UNCHANGED streamVars
  /\ UNCHANGED <<srcMtime, srcDuration, outFiles, transcodeStatus, readyBooks, queue,
                 queuedSources, diskStatus, diskIndex, scans, rescanTimer, timers, burst,
                 worker, running, boot, audit, chan, input, output, statusFile>>

\* a caller looks up the probe data of the path
ProbeLookup ==
  \E mtimeMs \in 1..MaxProbeMtime, engine \in EngineOutcomes, written \in BOOLEAN :
    LET r == probeData(probe, mtimeMs, engine, written) IN
    /\ r.p.calls <= MaxProbeCalls
    /\ probe' = [r.p EXCEPT !.last = [op |-> "probeData", mtimeMs |-> mtimeMs,
                                      result |-> <<r.data>>, engine |-> engine,
                                      tick |-> 1 - probe.last.tick]]
    /\ ProbeRest

\* a caller looks up the duration of the path
DurationLookup ==
  \E mtimeMs \in 1..MaxProbeMtime, engine \in EngineOutcomes, written \in BOOLEAN :
    LET r == getDurationSeconds(probe, mtimeMs, engine, written) IN
    /\ r.p.calls <= MaxProbeCalls
    /\ probe' = [r.p EXCEPT !.last = [op |-> "getDurationSeconds", mtimeMs |-> mtimeMs,
                                      result |-> r.duration, engine |-> engine,
                                      tick |-> 1 - probe.last.tick]]
    /\ ProbeRest

\* the process starts again: the maps are empty, the cache file is kept
ProbeRestart ==
  /\ probe.loaded
  /\ probe' = [probe EXCEPT !.probeCache = NoRecord, !.durationCache = NoRecord,
                            !.loaded = FALSE]
  /\ ProbeRest

ProbeInit ==
  /\ StreamIdle
  /\ srcMtime = <<>> /\ srcDuration = <<>> /\ outFiles = {} /\ transcodeStatus = <<>>
  /\ readyBooks = <<>> /\ queue = <<>> /\ queuedSources = {} /\ diskStatus = <<>>
  /\ diskIndex = <<>> /\ scans = <<>> /\ rescanTimer = FALSE /\ worker = <<>>
  /\ timers = 0 /\ burst = 0 /\ running = <<>> /\ boot = <<>> /\ audit = <<>>
  /\ chan = <<>> /\ input = <<>> /\ output = <<>> /\ statusFile = <<>>
  /\ probe = [probeCache |-> NoRecord, durationCache |-> NoRecord, loaded |-> FALSE,
              disk |-> NoRecord, calls |-> 0,
              last |-> [op |-> "none", mtimeMs |-> 0, result |-> <<>>,
                        engine |-> [ok |-> FALSE, duration |-> NoDuration], tick |-> 0]]

ProbeNext == ProbeLookup \/ DurationLookup \/ ProbeRestart
ProbeSpec == ProbeInit /\ [][ProbeNext]_vars

\* the probe record in force before a lookup: the map's once the file has
\* been loaded, the file's before
StoredProbe == IF probe.loaded THEN probe.probeCache ELSE probe.disk

\* the duration a probe record stands for
DurationOf(record) ==
  IF record.data = NoData THEN NoDuration ELSE record.data.duration

\* what the answer of the engine amounts to for the lookup made
AnswerOf(last) ==
  LET data == IF last.engine.ok THEN ProbeData(last.engine.duration) ELSE NoData IN
  IF last.op = "probeData" THEN <<data>>
  ELSE IF data = NoData THEN NoDuration ELSE data.duration

\* C22: a lookup for which a record of the same mtime is stored returns what
\* that record holds, a failure included, and does not run the engine; any
\* other lookup runs the engine once, returns its answer and leaves a record
\* of the looked-up mtime.
C22_ProbeCacheHitsAndMisses ==
  [][ probe'.last.tick # probe.last.tick =>
        LET last == probe'.last
            mapped == probe.durationCache
        IN  IF last.op = "getDurationSeconds" /\ mapped # NoRecord
               /\ mapped.mtimeMs = last.mtimeMs
              THEN /\ last.result = (IF mapped.failed THEN NoDuration ELSE mapped.duration)
                   /\ probe'.calls = probe.calls
            ELSE IF StoredProbe # NoRecord /\ StoredProbe.mtimeMs = last.mtimeMs
              THEN /\ last.result = (IF last.op = "probeData" THEN <<StoredProbe.data>>
                                     ELSE DurationOf(StoredProbe))
                   /\ probe'.calls = probe.calls
            ELSE /\ probe'.calls = probe.calls + 1
                 /\ last.result = AnswerOf(last)
                 /\ probe'.probeCache.mtimeMs = last.mtimeMs
                 /\ probe'.probeCache.data =
                      (IF last.engine.ok THEN ProbeData(last.engine.duration) ELSE NoData)
      ]_vars

\* a cached failure was returned without a run of the engine
C22_Witness ==
  /\ probe.last.op = "probeData"
  /\ probe.last.result = <<NoData>>
  /\ probe.last.engine.ok
  /\ probe.calls = 1

(***************************************************************************)
(* Failing writes.  fs.writeFile of a save made by the worker rejects      *)
(* (disk full, data directory gone): the save before the try block and    *)
(* the save inside the catch block throw out of workerLoop, whose promise  *)
(* nobody awaits; the saves inside the try block end in the catch block.   *)
(***************************************************************************)
WorkerWriteFails ==
  /\ worker.pc \in {"workingWrite", "doneWrite", "indexWrite", "failedWrite"}
  /\ CASE worker.pc = "workingWrite" ->
            /\ worker' = [worker EXCEPT !.pc = "dead", !.payload = NoPayload]
            /\ UNCHANGED <<transcodeStatus, queuedSources>>
       [] worker.pc \in {"doneWrite", "indexWrite"} ->
            /\ WorkerCatch("write failed")
            /\ UNCHANGED queuedSources
       [] worker.pc = "failedWrite" ->
            /\ worker' = [worker EXCEPT !.pc = "dead", !.payload = NoPayload]
            /\ queuedSources' = Delete(worker.job.source)
            /\ UNCHANGED transcodeStatus
  /\ UNCHANGED <<srcMtime, srcDuration, outFiles, readyBooks, queue, diskStatus, diskIndex,
                 scans, rescanTimer, timers, burst, running>>
  /\ Observe

FaultNext ==
  \/ \E s \in Sources : FsTouch(s)
  \/ TimerFire
  \/ \E i \in 1..Len(scans) : ScanStat(i)
  \/ \E i \in 1..Len(scans) : ScanBuild(i)
  \/ \E i \in 1..Len(scans) : ScanExists(i)
  \/ \E i \in 1..Len(scans) : ScanSnapshot(i)
  \/ \E i \in 1..Len(scans) : ScanWrite(i)
  \/ WorkerTake
  \/ WorkerSnapshot
  \/ WorkerSavedWorking
  \/ WorkerSpawn
  \/ ConverterProgress
  \/ \E ok \in BOOLEAN : ConverterExit(ok)
  \/ \E i \in 1..Len(running), ok \in BOOLEAN : OrphanExit(i, ok)
  \/ WorkerSavedDone
  \/ WorkerFinally
  \/ WorkerWriteFails

FaultSpec == Init /\ [][FaultNext]_vars

\* C23: whatever a job ends in, a failed save included, the worker loop is
\* not left: no error escapes it, and it is there to take the next job.
C23_WorkerLoopNeverEnds == worker.pc # "dead"

\* C24: when the process is killed after the worker persisted done and before
\* the Library Index with the Book was persisted, then after the restart no
\* job is pushed for the source, its status stays done, and once the startup
\* scan has ended the Library Index holds the Book with the transcode target
\* as primary file.
C24_DoneStatusRederivesBook ==
  boot.restarted =>
    \A s \in boot.unindexed :
      /\ transcodeStatus[s].state = "done"
      /\ s \notin queuedSources
      /\ \A k \in 1..Len(queue) : queue[k].source # s
      /\ ~boot.startup => readyBooks[s] = bookFromMeta(diskStatus[s].target)

\* the startup scan after such a crash has ended and the Book is back
C24_Witness ==
  /\ boot.restarted
  /\ ~boot.startup
  /\ boot.unindexed # {}
  /\ \A s \in boot.unindexed : readyBooks[s] = bookFromMeta(transcodeOutputPath(s, srcMtime[s]))

\* C25: a scan writes the two files only at its end: every write a scan
\* carries out is its final write of the Library Index or its final write of
\* the Transcode State, never a write made for a single book.
C25_ScanWritesOnlyAtEnd ==
  [][ \A i \in 1..Len(scans) :
        ScanWrite(i) => scans[i].pc \in {"indexWrite", "finalWrite"} ]_vars

(***************************************************************************)
(* Authorization (authorize, and the fetch handler of Bun.serve).  A       *)
(* request is its path, its ?key= parameter and its Authorization and      *)
(* X-API-Key headers, strings being sequences of characters and NoHeader   *)
(* an absent value; the answer is a status and the handler reached.        *)
(***************************************************************************)
MaxPad == 1

ApiKey == <<"k", "7">>

RECURSIVE TrimStart(_)
TrimStart(s) ==
  IF s # <<>> /\ Head(s) = " " THEN TrimStart(Tail(s)) ELSE s

Reverse(s) == [i \in 1..Len(s) |-> s[Len(s) + 1 - i]]

\* String.prototype.trim, for the blank
Trim(s) == Reverse(TrimStart(Reverse(TrimStart(s))))

LowerChar(c) ==
  CASE c = "B" -> "b" [] c = "E" -> "e" [] c = "A" -> "a" [] c = "R" -> "r"
    [] c = "S" -> "s" [] c = "I" -> "i" [] c = "C" -> "c" [] c = "M" -> "m"
    [] c = "P" -> "p" [] OTHER -> c

\* String.prototype.toLowerCase
ToLowerCase(s) == [i \in 1..Len(s) |-> LowerChar(s[i])]

StartsWith(s, prefix) ==
  Len(s) >= Len(prefix) /\ SubSeq(s, 1, Len(prefix)) = prefix

BearerPrefix == <<"b", "e", "a", "r", "e", "r", " ">>

\* the Authorization test of authorize with the scheme compared as written
BearerTokenExactCase(header, key) ==
  /\ header # NoHeader
  /\ StartsWith(header, BearerPrefix)
  /\ Trim(SubSeq(header, Len(BearerPrefix) + 1, Len(header))) = key

\* the Authorization test of authorize
BearerToken(header, key) ==
  /\ header # NoHeader
  /\ StartsWith(ToLowerCase(header), BearerPrefix)
  /\ Trim(SubSeq(header, Len(BearerPrefix) + 1, Len(header))) = key

\* the ?key= and X-API-Key tests of authorize
PlainKey(value, key) == value # NoHeader /\ value # <<>> /\ Trim(value) = key

authorize(request, key) ==
  \/ PlainKey(request.query, key)
  \/ BearerToken(request.authorization, key)
  \/ PlainKey(request.xApiKey, key)

\* the routes of the fetch handler
Route(path) ==
  CASE path = "/" -> "homePage"
    [] path = "/feed.xml" -> "handleFeed"
    [] path = "/stream/book.mp3" -> "handleStream"
    [] path = "/chapters/book.json" -> "handleChapters"
    [] path = "/covers/book.jpg" -> "handleCover"
    [] OTHER -> "notFound"

fetch(request) ==
  IF ~authorize(request, ApiKey)
    THEN [status |-> 401, handler |-> "none"]
    ELSE [status |-> IF Route(request.path) = "notFound" THEN 404 ELSE 200,
          handler |-> Route(request.path)]

\* blanks
Pad(n) == [i \in 1..n |-> " "]
Padded(v) == {Pad(i) \o v \o Pad(j) : i, j \in 0..MaxPad}

\* the values a request may carry where the key is expected
KeyValues ==
  {NoHeader, <<>>, <<"k">>, ApiKey \o <<"7">>} \cup Padded(ApiKey) \cup Padded(<<"x", "7">>)

Schemes ==
  { <<"B", "e", "a", "r", "e", "r">>, <<"b", "e", "a", "r", "e", "r">>,
    <<"B", "E", "A", "R", "E", "R">>, <<"B", "a", "s", "i", "c">> }

AuthorizationValues ==
  {NoHeader, ApiKey}
  \cup {scheme \o sep \o token :
          scheme \in Schemes, sep \in {<<>>, <<" ">>},
          token \in Padded(ApiKey) \cup {<<"x", "7">>, <<>>}}

Paths == {"/", "/feed.xml", "/stream/book.mp3", "/chapters/book.json",
          "/covers/book.jpg", "/favicon.ico"}

Requests ==
  [path : Paths, query : KeyValues, authorization : AuthorizationValues,
   xApiKey : {NoHeader, ApiKey, <<"x", "7">>}]

\* the library and its worker take no part in the specifications of single
\* functions: they stay as constructed
IdleProcess ==
  /\ srcMtime = <<>> /\ srcDuration = <<>> /\ outFiles = {} /\ transcodeStatus = <<>>
  /\ readyBooks = <<>> /\ queue = <<>> /\ queuedSources = {} /\ diskStatus = <<>>
  /\ diskIndex = <<>> /\ scans = <<>> /\ rescanTimer = FALSE /\ worker = <<>>
  /\ timers = 0 /\ burst = 0 /\ running = <<>> /\ boot = <<>> /\ audit = <<>>
  /\ chan = <<>>

KeepProcess ==
  /\ UNCHANGED streamVars
  /\ UNCHANGED <<srcMtime, srcDuration, outFiles, transcodeStatus, readyBooks, queue,
                 queuedSources, diskStatus, diskIndex, scans, rescanTimer, timers, burst,
                 worker, running, boot, audit, chan>>

AuthInit ==
  /\ StreamIdle
  /\ IdleProcess
  /\ probe = <<>> /\ statusFile = <<>>
  /\ input \in Requests
  /\ output = <<>>

\* a request arrives and is answered
Fetch ==
  /\ output = <<>>
  /\ output' = fetch(input)
  /\ UNCHANGED <<input, probe, statusFile>>
  /\ KeepProcess

AuthNext == Fetch
AuthSpec == AuthInit /\ [][AuthNext]_vars

\* a value is the key, blanks around it aside
IsKey(value) == \E i, j \in 0..(MaxPad + 1) : value = Pad(i) \o ApiKey \o Pad(j)

\* a request presents the key: as ?key=, as X-API-Key, or as the token of a
\* Bearer authorization (the scheme in any case, a blank, the key)
PresentsKey(request) ==
  \/ IsKey(request.query)
  \/ IsKey(request.xApiKey)
  \/ \E scheme \in Schemes :
       /\ ToLowerCase(scheme) = <<"b", "e", "a", "r", "e", "r">>
       /\ Len(request.authorization) > Len(scheme)
       /\ SubSeq(request.authorization, 1, Len(scheme) + 1) = scheme \o <<" ">>
       /\ IsKey(SubSeq(request.authorization, Len(scheme) + 2, Len(request.authorization)))

\* C26: a request that presents the key in none of the three ways is answered
\* 401 and reaches no handler, on every path; a request that presents it in
\* one of them is not answered 401 and reaches the handler of its path.
C26_KeyRequiredEverywhere ==
  output # <<>> =>
    IF PresentsKey(input)
      THEN output.status # 401 /\ output.handler = Route(input.path)
      ELSE output.status = 401 /\ output.handler = "none"

\* a request for the feed was let in on its Bearer token alone
C26_Witness ==
  /\ output # <<>>
  /\ input.path = "/feed.xml"
  /\ input.query = NoHeader /\ input.xApiKey = NoHeader
  /\ input.authorization = <<"B", "E", "A", "R", "E", "R", " ">> \o ApiKey
  /\ output.handler = "handleFeed"

(***************************************************************************)
(* saveTranscodeStatus taken alone.  The document of the map's n-th        *)
(* content is a sequence of chunks <<n, k>>; fs.writeFile opens the path   *)
(* itself for writing, which empties it, and then writes the chunks one    *)
(* after the other at the offset of its own descriptor.  The scan awaits   *)
(* its save; the worker's progress callback starts its save and goes on.   *)
(***************************************************************************)
MaxVersion == 2
MaxWrites == 2
MaxChunks == 2

\* the chunks of the n-th document: statuses gain and lose fields
DocLen(n) == 1 + (n % MaxChunks)

\* JSON.stringify(payload, null, 2)
Document(n) == [k \in 1..DocLen(n) |-> <<n, k>>]

\* a gap that a write past the end of the file leaves behind
Hole == <<-1, 0>>

\* write(fd, chunk) at the descriptor's offset
WriteAt(bytes, pos, chunk) ==
  [k \in 1..(IF pos + 1 > Len(bytes) THEN pos + 1 ELSE Len(bytes)) |->
     IF k = pos + 1 THEN chunk
     ELSE IF k <= Len(bytes) THEN bytes[k] ELSE Hole]

SaveInit ==
  /\ StreamIdle
  /\ IdleProcess
  /\ probe = <<>> /\ input = <<>> /\ output = <<>>
  /\ statusFile = [exists |-> FALSE, bytes |-> <<>>, writes |-> <<>>, version |-> 0,
                   crashed |-> FALSE]

SaveRest ==
  /\ UNCHANGED <<probe, input, output>>
  /\ KeepProcess

\* the map changes: a scan sets a status, the converter reports progress
StatusChanges ==
  /\ ~statusFile.crashed
  /\ statusFile.version < MaxVersion
  /\ statusFile' = [statusFile EXCEPT !.version = @ + 1]
  /\ SaveRest

\* saveTranscodeStatus is called, by the scan or by the progress callback:
\* the payload is the map as it is
saveTranscodeStatus ==
  /\ ~statusFile.crashed
  /\ Len(statusFile.writes) < MaxWrites
  /\ statusFile' = [statusFile EXCEPT
       !.writes = Append(@, [payload |-> Document(statusFile.version),
                             opened |-> FALSE, pos |-> 0])]
  /\ SaveRest

\* fs.writeFile opens the path with flag "w": the file is created or emptied
WriteOpen(i) ==
  /\ ~statusFile.writes[i].opened
  /\ statusFile' = [statusFile EXCEPT !.exists = TRUE, !.bytes = <<>>,
                                      !.writes[i].opened = TRUE]
  /\ SaveRest

\* fs.writeFile writes its next chunk
WriteChunk(i) ==
  LET w == statusFile.writes[i] IN
  /\ w.opened
  /\ w.pos < Len(w.payload)
  /\ statusFile' = [statusFile EXCEPT
       !.bytes = WriteAt(@, w.pos, w.payload[w.pos + 1]),
       !.writes[i].pos = @ + 1]
  /\ SaveRest

\* fs.writeFile closes the descriptor and resolves
WriteClose(i) ==
  LET w == statusFile.writes[i] IN
  /\ w.opened
  /\ w.pos = Len(w.payload)
  /\ statusFile' = [statusFile EXCEPT !.writes = RemoveAt(@, i)]
  /\ SaveRest

\* the process dies; the writes in flight die with it
Crash ==
  /\ ~statusFile.crashed
  /\ statusFile' = [statusFile EXCEPT !.writes = <<>>, !.crashed = TRUE]
  /\ SaveRest

SaveNext ==
  \/ StatusChanges
  \/ saveTranscodeStatus
  \/ \E i \in 1..Len(statusFile.writes) : WriteOpen(i)
  \/ \E i \in 1..Len(statusFile.writes) : WriteChunk(i)
  \/ \E i \in 1..Len(statusFile.writes) : WriteClose(i)
  \/ Crash

SaveSpec == SaveInit /\ [][SaveNext]_vars

\* the file holds one document, whole
WholeDocument(f) == f.exists => \E n \in 0..MaxVersion : f.bytes = Document(n)

\* C27: after a crash transcode-status.json is absent or holds one whole
\* document, never a part of one nor a mixture of two, also when the progress
\* save and a scan's save were in flight together.
C27_NoTornDocumentAfterCrash ==
  statusFile # <<>> /\ statusFile.crashed => WholeDocument(statusFile)

(***************************************************************************)
(* slugify, on strings as sequences of characters.                         *)
(***************************************************************************)
MaxSlugLen == 4

SlugChars == {"a", "B", "7", " ", "-", "_"}

\* [a-z0-9]
LowerAlnum ==
  {"a", "b", "c", "d", "e", "f", "g", "h", "i", "j", "k", "l", "m", "n", "o", "p", "q",
   "r", "s", "t", "u", "v", "w", "x", "y", "z",
   "0", "1", "2", "3", "4", "5", "6", "7", "8", "9"}

\* .replace(/[^a-z0-9]+/g, "-")
RECURSIVE ReplaceRuns(_)
ReplaceRuns(s) ==
  IF s = <<>> THEN <<>>
  ELSE IF Head(s) \in LowerAlnum THEN <<Head(s)>> \o ReplaceRuns(Tail(s))
  ELSE IF Len(s) > 1 /\ s[2] \notin LowerAlnum THEN ReplaceRuns(Tail(s))
  ELSE <<"-">> \o ReplaceRuns(Tail(s))

RECURSIVE StripStart(_)
StripStart(s) == IF s # <<>> /\ Head(s) = "-" THEN StripStart(Tail(s)) ELSE s

StripEnd(s) == Reverse(StripStart(Reverse(s)))

\* the same without the g flag: the first match only
StripDashesOnce(s) ==
  IF s # <<>> /\ Head(s) = "-" THEN StripStart(s) ELSE StripEnd(s)

\* .replace(/^-+|-+$/g, "")
StripDashes(s) == StripEnd(StripStart(s))

\* .replace(/--+/g, "-")
RECURSIVE CollapseDashes(_)
CollapseDashes(s) ==
  IF s = <<>> THEN <<>>
  ELSE IF Head(s) = "-" /\ Len(s) > 1 /\ s[2] = "-" THEN CollapseDashes(Tail(s))
  ELSE <<Head(s)>> \o CollapseDashes(Tail(s))

slugify(value) == CollapseDashes(StripDashes(ReplaceRuns(Trim(ToLowerCase(value)))))

RECURSIVE StringsUpTo(_)
StringsUpTo(n) ==
  IF n = 0 THEN {<<>>}
  ELSE StringsUpTo(n - 1)
       \cup {Append(s, c) : s \in {t \in StringsUpTo(n - 1) : Len(t) = n - 1}, c \in SlugChars}

NoSlug == <<"<none>">>

SlugInit ==
  /\ StreamIdle
  /\ IdleProcess
  /\ probe = <<>> /\ statusFile = <<>>
  /\ input \in StringsUpTo(MaxSlugLen)
  /\ output = [first |-> NoSlug, second |-> NoSlug]

\* the string is slugified
Slugify ==
  /\ output.first = NoSlug
  /\ output' = [output EXCEPT !.first = slugify(input)]
  /\ UNCHANGED <<input, probe, statusFile>>
  /\ KeepProcess

\* the slug is slugified
SlugifyAgain ==
  /\ output.first # NoSlug
  /\ output.second = NoSlug
  /\ output' = [output EXCEPT !.second = slugify(output.first)]
  /\ UNCHANGED <<input, probe, statusFile>>
  /\ KeepProcess

SlugNext == Slugify \/ SlugifyAgain
SlugSpec == SlugInit /\ [][SlugNext]_vars

\* C28: slugify is idempotent: the slug of a slug is the slug itself.
C28_SlugifyIsIdempotent ==
  output # <<>> /\ output.second # NoSlug => output.second = output.first

\* a string that slugify changed, into a slug of two words, was slugified twice
C28_Witness ==
  /\ output.second # NoSlug
  /\ output.first # input
  /\ \E k \in 2..(Len(output.first) - 1) : output.first[k] = "-"

(***************************************************************************)
(* The header of the chapter tag.  A cover of hundreds of megabytes cannot *)
(* be held as a sequence of bytes: the tag is kept as its ten header bytes *)
(* and its byteLength, the cover as its MIME type and its byteLength.  The *)
(* chapter frames are the encoder's own.                                   *)
(***************************************************************************)
MaxChapters == 2

\* the first size that four bytes of seven bits cannot hold
SynchsafeLimit == 268435456

\* id3Frame: identifier, size, flags, payload
frameLength(payloadLength) == 4 + 4 + 2 + payloadLength

\* apicFrame: encoding, MIME type, terminator, picture type, terminator, data
apicFrameLength(cover) == frameLength(1 + Len(Encode(cover.mime)) + 1 + 1 + 1 + cover.byteLength)

\* buildId3ChaptersTag: the header and the byteLength of the tag it returns
id3TagHeader(timings, cover) ==
  IF Len(timings) = 0 /\ ~cover.present THEN [header |-> <<>>, byteLength |-> 0]
  ELSE LET chapterFrames ==
             IF Len(timings) > 0
             THEN <<ctocFrame([i \in 1..Len(timings) |-> timings[i].id])>>
                  \o [i \in 1..Len(timings) |->
                        chapFrame(timings[i].id, timings[i].title,
                                  timings[i].startMs, timings[i].endMs)]
             ELSE <<>>
           framesLength ==
             (IF cover.present THEN apicFrameLength(cover) ELSE 0)
             + Len(Concat(chapterFrames))
       IN  [header |-> Encode(<<"I", "D", "3">>) \o <<4, 0, 0>> \o synchsafeSize(framesLength),
            byteLength |-> 10 + framesLength]

\* the chapters of a book of n parts, each of durationMs
TagTimings ==
  {<<>>} \cup
  { [i \in 1..n |-> [id |-> ChapterId(i - 1), title |-> title,
                     startMs |-> (i - 1) * durationMs, endMs |-> i * durationMs]] :
      n \in 1..MaxChapters, title \in {<<>>, <<65, 66>>}, durationMs \in {1, 500} }

\* the covers handleStream reads: small ones, and ones about SynchsafeLimit bytes
TagCovers ==
  {NoCover} \cup
  [present : {TRUE}, mime : {coverMimeFromPath("jpg"), coverMimeFromPath("png")},
   byteLength : {1, 2, SynchsafeLimit - 128, SynchsafeLimit - 24, SynchsafeLimit}]

TagInit ==
  /\ StreamIdle
  /\ IdleProcess
  /\ probe = <<>> /\ statusFile = <<>>
  /\ input \in [timings : TagTimings, cover : TagCovers]
  /\ output = <<>>

\* handleStream builds the tag of the book
BuildTag ==
  /\ output = <<>>
  /\ output' = id3TagHeader(input.timings, input.cover)
  /\ UNCHANGED <<input, probe, statusFile>>
  /\ KeepProcess

TagNext == BuildTag
TagSpec == TagInit /\ [][TagNext]_vars

\* the number that four synchsafe bytes stand for
SynchsafeValue(b) == ((b[1] * 128 + b[2]) * 128 + b[3]) * 128 + b[4]

\* C29: a non-empty tag begins with "ID3", 4, 0, flags 0 and four synchsafe
\* bytes, and these stand for the length of the tag less its ten header bytes.
C29_HeaderDeclaresPayload ==
  (output # <<>> /\ output.byteLength > 0) =>
    /\ SubSeq(output.header, 1, 6) = <<73, 68, 51, 4, 0, 0>>
    /\ Len(output.header) = 10
    /\ \A k \in 7..10 : output.header[k] \in 0..127
    /\ SynchsafeValue(SubSeq(output.header, 7, 10)) = output.byteLength - 10

(***************************************************************************)
(* The classification of a book directory (buildBook, up to the choice of  *)
(* its branch).  The directory is the set of its entries, each a name and  *)
(* whether it is a regular file; names are sequences of characters.        *)
(***************************************************************************)
MaxEntries == 3

\* the UTF-16 code unit of a character of a file name
CharCode(c) ==
  CASE c = "." -> 46 [] c = "3" -> 51 [] c = "4" -> 52 [] c = "B" -> 66 [] c = "M" -> 77
    [] c = "P" -> 80 [] c = "a" -> 97 [] c = "b" -> 98 [] c = "d" -> 100 [] c = "m" -> 109
    [] c = "p" -> 112 [] c = "t" -> 116 [] c = "x" -> 120 [] OTHER -> 0

\* a < b as Array.prototype.sort compares strings: code unit by code unit
RECURSIVE JsLess(_, _)
JsLess(a, b) ==
  IF b = <<>> THEN FALSE
  ELSE IF a = <<>> THEN TRUE
  ELSE IF Head(a) # Head(b) THEN CharCode(Head(a)) < CharCode(Head(b))
  ELSE JsLess(Tail(a), Tail(b))

\* names.sort()
RECURSIVE SortNames(_)
SortNames(names) ==
  IF names = {} THEN <<>>
  ELSE LET first == CHOOSE n \in names : \A m \in names \ {n} : JsLess(n, m)
       IN  <<first>> \o SortNames(names \ {first})

EndsWith(s, suffix) ==
  Len(s) >= Len(suffix) /\ SubSeq(s, Len(s) - Len(suffix) + 1, Len(s)) = suffix

\* entries.filter((entry) => entry.isFile()).map((entry) => entry.name)
FilesOf(entries) == {e.name : e \in {x \in entries : x.isFile}}

\* files.filter((f) => f.toLowerCase().endsWith(ext)).sort()
WithExtension(files, ext) == SortNames({f \in files : EndsWith(ToLowerCase(f), ext)})

NoCandidate == [kind |-> "none"]

\* the branches tried the other way round
classifyMp3First(entries) ==
  LET files == FilesOf(entries)
      m4bs == WithExtension(files, <<".", "m", "4", "b">>)
      mp3s == WithExtension(files, <<".", "m", "p", "3">>)
  IN  IF Len(mp3s) > 0 THEN [kind |-> "multi", parts |-> mp3s]
      ELSE IF Len(m4bs) > 0 THEN [kind |-> "single", source |-> m4bs[1]]
      ELSE NoCandidate

\* the branch buildBook takes: the single candidate and its source, the multi
\* candidate and its parts in the order of the loop, or neither
classify(entries) ==
  LET files == FilesOf(entries)
      m4bs == WithExtension(files, <<".", "m", "4", "b">>)
      mp3s == WithExtension(files, <<".", "m", "p", "3">>)
  IN  IF Len(m4bs) > 0 THEN [kind |-> "single", source |-> m4bs[1]]
      ELSE IF Len(mp3s) > 0 THEN [kind |-> "multi", parts |-> mp3s]
      ELSE NoCandidate

Stems == {<<"a">>, <<"B">>}
Extensions ==
  { <<".", "m", "4", "b">>, <<".", "M", "4", "B">>, <<".", "m", "p", "3">>,
    <<".", "M", "P", "3">>, <<".", "t", "x", "t">> }

\* regular files, and two subdirectories with the names of audio files
DirEntries ==
  {[name |-> stem \o ext, isFile |-> TRUE] : stem \in Stems, ext \in Extensions}
  \cup {[name |-> <<"d", ".", "m", "4", "b">>, isFile |-> FALSE],
        [name |-> <<"d", ".", "m", "p", "3">>, isFile |-> FALSE]}

Listings == {entries \in SUBSET DirEntries : Cardinality(entries) <= MaxEntries}

ClassifyInit ==
  /\ StreamIdle
  /\ IdleProcess
  /\ probe = <<>> /\ statusFile = <<>>
  /\ input \in Listings
  /\ output = <<>>

\* a scan reaches the directory
Classify ==
  /\ output = <<>>
  /\ output' = classify(input)
  /\ UNCHANGED <<input, probe, statusFile>>
  /\ KeepProcess

ClassifyNext == Classify
ClassifySpec == ClassifyInit /\ [][ClassifyNext]_vars

\* the regular files of the directory whose name ends in the extension, in
\* either case
AudioFiles(entries, ext) ==
  {e.name : e \in {x \in entries : x.isFile /\ Len(x.name) >= 4
                                   /\ ToLowerCase(SubSeq(x.name, Len(x.name) - 3, Len(x.name))) = ext}}

\* C30: with any .m4b file in the directory the book is a single candidate
\* whose source is the first .m4b in lexicographic order, whatever .mp3 files
\* there are; else with any .mp3 file it is a multi book over the .mp3 files
\* in lexicographic order; else the directory gives no book.
C30_BookClassification ==
  output # <<>> =>
    LET m4bFiles == AudioFiles(input, <<".", "m", "4", "b">>)
        mp3Files == AudioFiles(input, <<".", "m", "p", "3">>)
    IN  IF m4bFiles # {}
        THEN /\ output.kind = "single"
             /\ output.source \in m4bFiles
             /\ \A m \in m4bFiles \ {output.source} : JsLess(output.source, m)
        ELSE IF mp3Files # {}
        THEN /\ output.kind = "multi"
             /\ {output.parts[i] : i \in 1..Len(output.parts)} = mp3Files
             /\ Len(output.parts) = Cardinality(mp3Files)
             /\ \A i \in 1..(Len(output.parts) - 1) : JsLess(output.parts[i], output.parts[i + 1])
        ELSE output.kind = "none"

\* a directory with two .m4b files and an .mp3 file was classified
C30_Witness ==
  /\ output # <<>>
  /\ input = {[name |-> <<"a", ".", "m", "4", "b">>, isFile |-> TRUE],
              [name |-> <<"B", ".", "M", "4", "B">>, isFile |-> TRUE],
              [name |-> <<"a", ".", "m", "p", "3">>, isFile |-> TRUE]}
  /\ output = [kind |-> "single", source |-> <<"B", ".", "M", "4", "B">>]

(***************************************************************************)
(* The process over sources that stay as they are: other changes under the *)
(* scan roots cause rescans while the worker is at its jobs.                *)
(***************************************************************************)
QuietSpec == Init /\ [][AuditNext]_vars

\* the worker's job ends: its last save completes and finally runs
JobEnds == worker.pc \in {"indexWrite", "failedWrite"} /\ worker'.pc = "idle"

\* C31: when a job the worker accepted has ended, the TranscodeStatus the
\* Transcode State holds for the job's source is done or failed, not pending
\* or working.
C31_EndedJobIsDoneOrFailed ==
  [][ JobEnds => transcodeStatus'[worker.job.source].state \in {"done", "failed"} ]_vars

\* a rescan has seen a newer mtime of the source the worker is transcoding:
\* the Transcode State holds a status of that newer mtime
RescanSawNewer ==
  /\ worker.pc \in {"reading", "doneSnap", "doneWrite", "indexSnap", "indexWrite"}
  /\ transcodeStatus[worker.job.source] # NoStatus
  /\ transcodeStatus[worker.job.source].mtimeMs > worker.job.mtimeMs

\* C32: when a rescan has seen a newer mtime of the source while the worker
\* transcodes the older version, no step of the worker on that job inserts a
\* Book for the source into the Library Index or turns the source's current
\* TranscodeStatus to done.
C32_OlderResultIsDiscarded ==
  [][ (RescanSawNewer /\ worker' # worker)
      => /\ readyBooks'[worker.job.source] = readyBooks[worker.job.source]
         /\ transcodeStatus'[worker.job.source].state = "done"
              => transcodeStatus[worker.job.source].state = "done" ]_vars

\* neither a scan nor a job is in progress or waiting, and no rescan is due:
\* every change of the file system has been followed by a whole scan
AtRest == scans = <<>> /\ worker.pc = "idle" /\ queue = <<>> /\ timers = 0

\* the Transcode State holds done for the source as it is on disk
DoneAsOnDisk(s) ==
  /\ transcodeStatus[s] # NoStatus
  /\ transcodeStatus[s].state = "done"
  /\ transcodeStatus[s].mtimeMs = srcMtime[s]

\* C33: whenever no scan and no job is in progress or due, a single Book is in the
\* Library Index if and only if the Transcode State holds a done status for
\* its source with the mtime of the source on disk, and the target of that
\* status is the Book's primary file.
C33_IndexAgreesWithState ==
  AtRest =>
    \A s \in Sources :
      /\ readyBooks[s] # NoBook <=> DoneAsOnDisk(s)
      /\ readyBooks[s] # NoBook => readyBooks[s].primaryFile = transcodeStatus[s].target

(***************************************************************************)
(* The process under a fair event loop: a timeout that is due runs, a scan *)
(* and the worker go on from every await, and every converter run ends.    *)
(* The sources are rewritten finitely often (MaxMtime).                    *)
(***************************************************************************)
ScanSteps ==
  \E i \in 1..Len(scans) :
    ScanStat(i) \/ ScanBuild(i) \/ ScanExists(i) \/ ScanSnapshot(i) \/ ScanWrite(i)

WorkerSteps ==
  WorkerTake \/ WorkerSnapshot \/ WorkerSavedWorking \/ WorkerSpawn \/ WorkerSavedDone
  \/ WorkerFinally

ConverterSteps ==
  \/ \E ok \in BOOLEAN : ConverterExit(ok)
  \/ \E i \in 1..Len(running), ok \in BOOLEAN : OrphanExit(i, ok)

FairSpec ==
  /\ Init /\ [][Next]_vars
  /\ WF_vars(TimerFire) /\ WF_vars(ScanSteps) /\ WF_vars(WorkerSteps)
  /\ WF_vars(ConverterSteps)

\* C34: every TranscodeStatus in state pending eventually reaches done or
\* failed, the file system changing finitely often and every converter run
\* ending.
C34_PendingIsNeverOrphaned ==
  \A s \in Sources :
    (transcodeStatus[s].state = "pending") ~> (transcodeStatus[s].state \in {"done", "failed"})

\* the sources whose TranscodeStatus is working: the "active" of the status page
Working == {s \in Sources : transcodeStatus[s].state = "working"}

\* C35: at most one TranscodeStatus is in state working, and it is the status
\* of the job the worker is running, also after a restart that has loaded a
\* status persisted as working.
C35_WorkingIsTheRunningJob ==
  /\ Cardinality(Working) <= 1
  /\ \A s \in Working : worker.pc # "idle" /\ worker.job.source = s

(***************************************************************************)
(* A crash over sources that stay as they are: the process of QuietSpec,   *)
(* killed and started again once.                                          *)
(***************************************************************************)
CrashNext == AuditNext \/ Restart
CrashSpec == Init /\ [][CrashNext]_vars

\* the startup scan after the crash takes its decision on the source
StartupScanDecides(s) ==
  /\ boot.restarted /\ boot.startup
  /\ scans # <<>> /\ scans[1].pc \in {"build", "exists"}
  /\ ScanOrder[scans[1].idx] = s
  /\ scans'[1] # scans[1]

\* C36: after a crash in the middle of a transcode, the status working
\* persisted and the output half written, the startup scan of the unchanged
\* source sets its status to pending and queues one job for it, the only one,
\* and at no time is the half-written output the primary file of a Book in
\* the Library Index.
C36_CrashedTranscodeIsRedone ==
  [][ \A s \in boot'.midway :
        /\ StartupScanDecides(s)
             => /\ transcodeStatus'[s].state = "pending"
                /\ queue' = Append(queue, TranscodeJob(s, srcMtime[s]))
                /\ Cardinality({k \in 1..Len(queue') : queue'[k].source = s}) = 1
        /\ readyBooks'[s] # NoBook => readyBooks'[s].primaryFile \notin boot'.partial ]_vars

(***************************************************************************)
(* The debounce under fair scheduling: a timeout that is due runs, and a   *)
(* scan in progress goes on; events may arrive at any time.                *)
(***************************************************************************)
DebounceSpec ==
  /\ Init /\ [][WatchNext]_vars
  /\ WF_vars(TimerFire) /\ WF_vars(ScanSteps)

\* the watcher's callback runs for a change under a scan root
WatchEvent == FsEvent \/ \E s \in Sources : FsTouch(s)

\* C37: no file-system event is lost by the debounce.  After every event a
\* timeout is outstanding (the one set by the event, or the pending one that
\* swallowed it); an event that arrives while a scan is running and no
\* timeout is pending sets a new one; the handle is cleared only by the
\* timeout, in the step that starts a scan from its beginning; and every
\* outstanding timeout eventually runs.
C37_NoEventIsLost ==
  /\ [][ /\ WatchEvent => (rescanTimer' /\ timers' = 1 /\ burst' >= 1)
         /\ (WatchEvent /\ scans # <<>> /\ ~rescanTimer) => timers' = timers + 1
         /\ (rescanTimer /\ ~rescanTimer') =>
              /\ Len(scans') = Len(scans) + 1
              /\ scans'[Len(scans')] = NewScan ]_vars
  /\ (rescanTimer ~> ~rescanTimer)

\* an event has arrived while a scan was running, and a further scan is
\* scheduled beside it
C37_Witness ==
  /\ scans # <<>>
  /\ scans[1].pc # "stat"
  /\ rescanTimer
  /\ burst >= 1

(***************************************************************************)
(* The table of contents of long books.  The tag is the encoder's own, as  *)
(* bytes; its frames are read back from the bytes.                         *)
(***************************************************************************)
\* numbers of parts about the largest value of a byte
TocCounts == {1, 2, 255, 256, 257}

\* the chapters of a book of n parts, each of durationMs, titled alike
TocTimings ==
  { [i \in 1..n |-> [id |-> ChapterId(i - 1), title |-> title,
                     startMs |-> (i - 1) * durationMs, endMs |-> i * durationMs]] :
      n \in TocCounts, title \in {<<>>, <<65, 66>>}, durationMs \in {1, 500} }

TocCovers ==
  {NoCover} \cup
  [present : {TRUE}, mime : {coverMimeFromPath("jpg"), coverMimeFromPath("png")},
   data : {<<1, 2>>}]

TocInit ==
  /\ StreamIdle
  /\ IdleProcess
  /\ probe = <<>> /\ statusFile = <<>>
  /\ input \in [timings : TocTimings, cover : TocCovers]
  /\ output = <<>>

\* handleStream builds the tag of the book
BuildChaptersTag ==
  /\ output = <<>>
  /\ output' = buildId3ChaptersTag(input.timings, input.cover)
  /\ UNCHANGED <<input, probe, statusFile>>
  /\ KeepProcess

TocNext == BuildChaptersTag
TocSpec == TocInit /\ [][TocNext]_vars

\* the frame after the one at pos begins behind its ten header bytes and the
\* payload its size bytes declare
FrameAfter(tag, pos) == pos + 10 + SynchsafeValue(SubSeq(tag, pos + 4, pos + 7))

\* where the next frames of a tag begin, from the frame at pos on, at most
\* count of them
RECURSIVE FrameRun(_, _, _)
FrameRun(tag, pos, count) ==
  IF count = 0 \/ pos + 9 > Len(tag) THEN <<>>
  ELSE <<pos>> \o FrameRun(tag, FrameAfter(tag, pos), count - 1)

\* where the frames of a tag begin, from the frame at pos on, found in runs of 16
RECURSIVE FrameStarts(_, _)
FrameStarts(tag, pos) ==
  LET run == FrameRun(tag, pos, 16)
  IN  IF Len(run) < 16 THEN run
      ELSE run \o FrameStarts(tag, FrameAfter(tag, run[16]))

FramesOfTag(tag) == FrameStarts(tag, 11)
FrameIs(tag, pos, id) == SubSeq(tag, pos, pos + 3) = Encode(id)

CtocStart(tag) ==
  LET starts == FramesOfTag(tag)
  IN  starts[CHOOSE k \in DOMAIN starts : FrameIs(tag, starts[k], <<"C", "T", "O", "C">>)]

\* the entry count of the CTOC frame: the byte after "toc", 0 and the flags
CtocEntryCount(tag) == tag[CtocStart(tag) + 10 + 5]

\* the child element ids of the CTOC frame: the terminated strings between
\* the entry count and the frame's TIT2 sub-frame
CtocChildIds(tag) ==
  LET start == CtocStart(tag)
      size == SynchsafeValue(SubSeq(tag, start + 4, start + 7))
      titleLength == Len(textFrame(<<"T", "I", "T", "2">>, ChaptersText))
  IN  Cardinality({k \in (start + 16)..(start + 9 + size - titleLength) : tag[k] = 0})

ChapFrames(tag) ==
  LET starts == FramesOfTag(tag)
  IN  Cardinality({k \in DOMAIN starts : FrameIs(tag, starts[k], <<"C", "H", "A", "P">>)})

\* C38: in the tag of a book with chapters the entry count of the CTOC frame
\* is the number of its child element ids, and the number of CHAP frames of
\* the tag, one per chapter.
C38_CtocCountsItsChildren ==
  output # <<>> =>
    /\ CtocChildIds(output) = Len(input.timings)
    /\ ChapFrames(output) = Len(input.timings)
    /\ CtocEntryCount(output) = CtocChildIds(output)

====
